---- MODULE Spec2Model ----
(***************************************************************************)
(* LakeStream scraping engine: the scrape-job orchestrator                 *)
(* (src/queue/jobs.py) with the job row it persists                        *)
(* (src/db/queries/jobs.py), and the escalation policy                     *)
(* (src/services/escalation.py).                                           *)
(*                                                                         *)
(* Spec     : one run of process_scrape_job under the arq worker.          *)
(* EscSpec  : the pure functions of EscalationService applied to bounded   *)
(*            inputs.                                                      *)
(***************************************************************************)
EXTENDS Integers, Sequences, FiniteSets, TLC

\* ------------------------------------------------------------------ bounds
\* longest data_types list a job is submitted with
MaxTypes == 2
\* longest classified-URL list the domain mapper returns
MaxUrls == 2

\* ------------------------------------------------------- Python's None
NoneStr == "None"
NoneInt == 0 - 1

\* ------------------------------------------------------------ JobStatus
PENDING == "pending"
RUNNING == "running"
COMPLETED == "completed"
FAILED == "failed"

\* arq WorkerSettings.job_timeout, in seconds
job_timeout == 300

\* seconds an awaited call may take before it returns
StepSeconds == {0, 150}

\* the six data types process_scrape_job has a branch for
KnownTypes == {"blog_url", "article", "contact", "tech_stack", "resource", "pricing"}

\* data_types is list[str]: any string may be requested
RequestedTypes == KnownTypes \cup {"other"}

RECURSIVE SeqsUpTo(_, _)
SeqsUpTo(S, n) ==
    IF n = 0 THEN {<<>>}
    ELSE LET shorter == SeqsUpTo(S, n - 1)
         IN  shorter \cup {Append(s, x) : s \in shorter, x \in S}

Range(s) == {s[k] : k \in 1..Len(s)}

NoDup(s) == \A a, b \in 1..Len(s) : a # b => s[a] # s[b]

\* -------------------------------------------------------- the scraped site
\* URLs the domain mapper may discover, with the tag classify_urls gives them
ClassifiedPool ==
    { [url |-> "b1", data_type |-> "blog_url"],
      [url |-> "b2", data_type |-> "blog_url"],
      [url |-> "c1", data_type |-> "contact"] }

\* validate_and_deduplicate leaves no URL twice
ClassifiedLists ==
    {s \in SeqsUpTo(ClassifiedPool, MaxUrls) : NoDup(s)}

\* what HtmlParser.extract_links finds on a blog landing page
extract_links(url) ==
    IF url = "b1" THEN <<"a1", "a2">>
    ELSE IF url = "b2" THEN <<"a2", "a3">>
    ELSE <<>>

VARIABLES
    pc,                  \* position of process_scrape_job
    now,                 \* wall clock, seconds
    start_time,          \* local start_time
    job,                 \* the scrape_jobs row
    data_types,          \* kwarg data_types
    classified_urls,     \* local classified_urls
    total_data,          \* local total_data
    total_cost,          \* local total_cost
    errors,              \* local errors
    blog_urls,           \* local blog_urls
    idx,                 \* position of the for loop in data_types
    cur_urls,            \* argument of the worker.execute call in flight
    trace,               \* worker.execute calls and returns, in order
    propagated,          \* exception that left process_scrape_job
    webhook,             \* outcome of export_job_to_webhook
    esc_meta,            \* domain_metadata rows of the domain (none or one)
    esc_result,          \* a FetchResult
    esc_initial,         \* value returned by decide_initial_tier
    esc_escalate,        \* value returned by should_escalate
    esc_next,            \* value returned by get_next_tier
    esc_called,          \* the EscalationService methods that have returned
    ft_fetcher,          \* the fetcher class whose fetch is called
    ft_transport,        \* what the underlying transport does
    ft_out,              \* what fetch returns or raises
    ft_done,             \* fetch has finished
    pg_mode,             \* which entry point fetches the page
    pg_pc,               \* position inside the entry point
    pg_tier,             \* the tier argument or local of the call in flight
    pg_arg,              \* the tier argument of the outer call
    pg_meta,             \* domain_metadata rows of the page's domain
    pg_fetches,          \* FetchResults obtained for the page, in order
    pg_records,          \* record_result calls made for the page, in order
    pg_ret,              \* what the entry point returned
    md_row,              \* the domain_metadata row of one domain (none or one)
    md_first,            \* that row before the first call
    md_now,              \* clock of the database server
    md_calls,            \* the record_result calls: arguments, progress, NOW() of their statement
    md_log,              \* the calls whose upsert has been applied, in order
    rl_now,              \* time.time(), in milliseconds
    rl_last,             \* RateLimiter._last_request
    rl_co,               \* the coroutines calling wait: position and locals
    rl_log,              \* the wait calls that returned and the resets, in order
    td_now,              \* NOW() and datetime.now(UTC), in days
    td_rows,             \* the tracked_domains table, by domain
    td_jobs,             \* the scrape_jobs rows created by the scheduler
    td_queue,            \* the jobs enqueued to arq
    td_ops,              \* API calls made so far
    ad_call,             \* the add_tracked_domain call between line 38 and its upsert
    tk_pc,               \* position of check_scheduled_scrapes
    tk_due,              \* rows of due not yet reached by the for loop
    tk_cur,              \* the loop variable tracked
    tk_job,              \* id of the job created for tracked
    tk_freq,             \* scrape_frequency read by mark_scraped
    tk_runs,             \* ticks started so far
    tk_start,            \* the table, the time and the job count when due was selected
    tk_log,              \* outcome of each due row of this tick
    ts_rows,             \* the tracked_searches table
    ts_jobs,             \* the discovery_jobs rows created by the scheduler
    ts_queue,            \* process_discovery_job entries the scheduler enqueued
    ts_pc,               \* position of check_tracked_searches
    ts_due,              \* rows of due not gone through yet
    ts_cur,              \* loop variable tracked of check_tracked_searches
    ts_job,              \* id of the discovery job created for tracked
    ts_freq,             \* scrape_frequency read by mark_tracked_search_run
    ts_runs,             \* search ticks started so far
    ts_start,            \* the table and the time when due was selected
    ts_log,              \* outcome of each due tracked search of this tick
    ex_results,          \* argument results of extract_unique_domains
    ex_skip,             \* argument skip_domains
    ex_map,              \* the dict returned
    ex_done,             \* the call has returned
    dj_settings,         \* the Settings object
    dj_results,          \* what search_pages returns
    dj_skip,             \* what get_recently_scraped_domains returns
    dj_job,              \* the discovery_jobs row
    dj_rows,             \* the discovery_job_domains rows of the job
    dj_jobs,             \* the scrape_jobs rows the run created
    dj_queue,            \* process_scrape_job entries the run enqueued
    dj_pc,               \* position of process_discovery_job
    dj_map,              \* local domain_map
    dj_items,            \* items of domain_items not gone through yet
    dj_skipped,          \* domains of skipped not gone through yet
    dj_ret,              \* how the run ended
    wk_queue,            \* the arq queue
    wk_done,             \* the jobs the worker took, with what became of them
    wk_time,             \* quarters of an hour since the worker started
    wk_cron,             \* the cron functions run, with the quarter of each run
    wk_enqueued,         \* jobs enqueued so far
    cr_status,           \* status of the answer to the sitemap request
    cr_locs,             \* the <loc> entries of the answer
    cr_limit,            \* argument limit of map_domain
    cr_pc,               \* position of map_domain
    cr_sitemap_urls,     \* local sitemap_urls
    cr_crawled,          \* _crawl_recursive was invoked
    cr_ret,              \* the URLs map_domain returned
    pl_raw_urls,         \* the URLs map_domain handed to the domain mapper
    pl_valid_urls,       \* what validate_and_deduplicate returned: the URLs of the mapper's records
    pl_cards,            \* the resource cards of the page the resource finder fetched
    pl_links,            \* the direct asset links of that page
    pl_resources,        \* the URLs of the records the resource finder emitted
    pl_pc,               \* position in the pipeline
    cl_url,              \* the URL handed to classify_url
    cl_result,           \* what classify_url returned
    cl_pc,               \* whether classify_url has returned
    cp_json_ld,          \* the Person items of the page's JSON-LD scripts
    cp_cards,            \* the names on the page's team cards
    cp_text,             \* the e-mail addresses and LinkedIn URLs in the page's text
    cp_ret,              \* what extract_people returned, or that it raised
    cp_pc,               \* whether extract_people has run
    nu_url,              \* the URL handed to normalize_url
    nu_once,             \* normalize_url of it
    nu_twice,            \* normalize_url of that
    nu_pc,               \* how many times normalize_url has been applied
    wl_worker,           \* the worker class that runs
    wl_urls,             \* the URLs handed to execute
    wl_i,                \* how many of them the loop has taken
    wl_fetched,          \* the FetchResult of each URL taken, a raised fetch included
    wl_outcome,          \* what became of each URL taken
    wl_records,          \* the URLs of the records exported
    wl_total_cost,       \* total_cost of the process_scrape_job that runs the worker
    wl_job_cost,         \* cost_usd of the scrape_jobs row
    wl_pc,               \* whether execute has returned
    bfs_impl,            \* the service whose crawl runs
    bfs_limit,           \* the limit handed to the crawl
    bfs_max_concurrent,  \* how many URLs a round fetches at most
    bfs_discovered,      \* discovered
    bfs_to_crawl,        \* to_crawl
    bfs_crawled,         \* crawled
    bfs_batch,           \* the URLs popped for this round that are not fetched yet
    bfs_results,         \* the results gathered in this round that are not processed yet
    bfs_fetched,         \* every URL fetched so far, in order
    bfs_log,             \* for every result processed: its URL, its outcome, the URLs it added
    bfs_ret,             \* the list returned
    bfs_pc,              \* position in the crawl
    rt_max_retries,      \* max_retries
    rt_base_delay,       \* base_delay
    rt_max_delay,        \* max_delay
    rt_retry_on,         \* retry_on
    rt_attempt,          \* attempt
    rt_trace,            \* the calls of fn, the sleeps, and the way retry_async ended, in order
    rt_pc,               \* position in retry_async
    ov_rows,             \* the tracked_domains table
    ov_jobs,             \* the scrape_jobs rows created, with the execution that created each
    ov_queue,            \* the tasks enqueued
    ov_ex                \* the locals of each execution of check_scheduled_scrapes

jobVars == <<pc, now, start_time, job, data_types, classified_urls, total_data,
             total_cost, errors, blog_urls, idx, cur_urls, trace, propagated,
             webhook>>

escVars == <<esc_meta, esc_result, esc_initial, esc_escalate, esc_next, esc_called>>

ftVars == <<ft_fetcher, ft_transport, ft_out, ft_done>>

pgVars == <<pg_mode, pg_pc, pg_tier, pg_arg, pg_meta, pg_fetches, pg_records,
            pg_ret>>

mdVars == <<md_row, md_first, md_now, md_calls, md_log>>

rlVars == <<rl_now, rl_last, rl_co, rl_log>>

tdVars == <<td_now, td_rows, td_jobs, td_queue, td_ops, ad_call, tk_pc, tk_due,
            tk_cur, tk_job, tk_freq, tk_runs, tk_start, tk_log>>

tsVars == <<ts_rows, ts_jobs, ts_queue, ts_pc, ts_due, ts_cur, ts_job, ts_freq,
            ts_runs, ts_start, ts_log>>

exVars == <<ex_results, ex_skip, ex_map, ex_done>>

djVars == <<dj_settings, dj_results, dj_skip, dj_job, dj_rows, dj_jobs, dj_queue,
            dj_pc, dj_map, dj_items, dj_skipped, dj_ret>>

wkVars == <<wk_queue, wk_done, wk_time, wk_cron, wk_enqueued>>

crVars == <<cr_status, cr_locs, cr_limit, cr_pc, cr_sitemap_urls, cr_crawled,
            cr_ret>>

plVars == <<pl_raw_urls, pl_valid_urls, pl_cards, pl_links, pl_resources, pl_pc>>

clVars == <<cl_url, cl_result, cl_pc>>

cpVars == <<cp_json_ld, cp_cards, cp_text, cp_ret, cp_pc>>

nuVars == <<nu_url, nu_once, nu_twice, nu_pc>>

wlVars == <<wl_worker, wl_urls, wl_i, wl_fetched, wl_outcome, wl_records,
            wl_total_cost, wl_job_cost, wl_pc>>

bfsVars == <<bfs_impl, bfs_limit, bfs_max_concurrent, bfs_discovered, bfs_to_crawl,
             bfs_crawled, bfs_batch, bfs_results, bfs_fetched, bfs_log, bfs_ret,
             bfs_pc>>

rtVars == <<rt_max_retries, rt_base_delay, rt_max_delay, rt_retry_on, rt_attempt,
            rt_trace, rt_pc>>

ovVars == <<ov_rows, ov_jobs, ov_queue, ov_ex>>

vars == <<jobVars, escVars, ftVars, pgVars, mdVars, rlVars, tdVars, tsVars,
          exVars, djVars, wkVars, crVars, plVars, clVars, cpVars, nuVars,
          wlVars, bfsVars, rtVars, ovVars>>

\* everything outside the job variables
notJob == <<escVars, ftVars, pgVars, mdVars, rlVars, tdVars, tsVars, exVars,
            djVars, wkVars, crVars, plVars, clVars, cpVars, nuVars, wlVars,
            bfsVars, rtVars, ovVars>>

\* everything outside the esc variables
notEsc == <<jobVars, ftVars, pgVars, mdVars, rlVars, tdVars, tsVars, exVars,
            djVars, wkVars, crVars, plVars, clVars, cpVars, nuVars, wlVars,
            bfsVars, rtVars, ovVars>>

\* everything outside the ft variables
notFt == <<jobVars, escVars, pgVars, mdVars, rlVars, tdVars, tsVars, exVars,
           djVars, wkVars, crVars, plVars, clVars, cpVars, nuVars, wlVars,
           bfsVars, rtVars, ovVars>>

\* everything outside the pg variables
notPg == <<jobVars, escVars, ftVars, mdVars, rlVars, tdVars, tsVars, exVars,
           djVars, wkVars, crVars, plVars, clVars, cpVars, nuVars, wlVars,
           bfsVars, rtVars, ovVars>>

\* everything outside the md variables
notMd == <<jobVars, escVars, ftVars, pgVars, rlVars, tdVars, tsVars, exVars,
           djVars, wkVars, crVars, plVars, clVars, cpVars, nuVars, wlVars,
           bfsVars, rtVars, ovVars>>

\* everything outside the rl variables
notRl == <<jobVars, escVars, ftVars, pgVars, mdVars, tdVars, tsVars, exVars,
           djVars, wkVars, crVars, plVars, clVars, cpVars, nuVars, wlVars,
           bfsVars, rtVars, ovVars>>

\* everything outside the td variables
notTd == <<jobVars, escVars, ftVars, pgVars, mdVars, rlVars, tsVars, exVars,
           djVars, wkVars, crVars, plVars, clVars, cpVars, nuVars, wlVars,
           bfsVars, rtVars, ovVars>>

\* everything outside the ts variables
notTs == <<jobVars, escVars, ftVars, pgVars, mdVars, rlVars, tdVars, exVars,
           djVars, wkVars, crVars, plVars, clVars, cpVars, nuVars, wlVars,
           bfsVars, rtVars, ovVars>>

\* everything outside the ex variables
notEx == <<jobVars, escVars, ftVars, pgVars, mdVars, rlVars, tdVars, tsVars,
           djVars, wkVars, crVars, plVars, clVars, cpVars, nuVars, wlVars,
           bfsVars, rtVars, ovVars>>

\* everything outside the dj variables
notDj == <<jobVars, escVars, ftVars, pgVars, mdVars, rlVars, tdVars, tsVars,
           exVars, wkVars, crVars, plVars, clVars, cpVars, nuVars, wlVars,
           bfsVars, rtVars, ovVars>>

\* everything outside the wk variables
notWk == <<jobVars, escVars, ftVars, pgVars, mdVars, rlVars, tdVars, tsVars,
           exVars, djVars, crVars, plVars, clVars, cpVars, nuVars, wlVars,
           bfsVars, rtVars, ovVars>>

\* everything outside the cr variables
notCr == <<jobVars, escVars, ftVars, pgVars, mdVars, rlVars, tdVars, tsVars,
           exVars, djVars, wkVars, plVars, clVars, cpVars, nuVars, wlVars,
           bfsVars, rtVars, ovVars>>

\* everything outside the pl variables
notPl == <<jobVars, escVars, ftVars, pgVars, mdVars, rlVars, tdVars, tsVars,
           exVars, djVars, wkVars, crVars, clVars, cpVars, nuVars, wlVars,
           bfsVars, rtVars, ovVars>>

\* everything outside the cl variables
notCl == <<jobVars, escVars, ftVars, pgVars, mdVars, rlVars, tdVars, tsVars,
           exVars, djVars, wkVars, crVars, plVars, cpVars, nuVars, wlVars,
           bfsVars, rtVars, ovVars>>

\* everything outside the cp variables
notCp == <<jobVars, escVars, ftVars, pgVars, mdVars, rlVars, tdVars, tsVars,
           exVars, djVars, wkVars, crVars, plVars, clVars, nuVars, wlVars,
           bfsVars, rtVars, ovVars>>

\* everything outside the nu variables
notNu == <<jobVars, escVars, ftVars, pgVars, mdVars, rlVars, tdVars, tsVars,
           exVars, djVars, wkVars, crVars, plVars, clVars, cpVars, wlVars,
           bfsVars, rtVars, ovVars>>

\* everything outside the wl variables
notWl == <<jobVars, escVars, ftVars, pgVars, mdVars, rlVars, tdVars, tsVars,
           exVars, djVars, wkVars, crVars, plVars, clVars, cpVars, nuVars,
           bfsVars, rtVars, ovVars>>

\* everything outside the bfs variables
notBfs == <<jobVars, escVars, ftVars, pgVars, mdVars, rlVars, tdVars, tsVars,
            exVars, djVars, wkVars, crVars, plVars, clVars, cpVars, nuVars,
            wlVars, rtVars, ovVars>>

\* everything outside the rt variables
notRt == <<jobVars, escVars, ftVars, pgVars, mdVars, rlVars, tdVars, tsVars,
           exVars, djVars, wkVars, crVars, plVars, clVars, cpVars, nuVars,
           wlVars, bfsVars, ovVars>>

\* everything outside the ov variables
notOv == <<jobVars, escVars, ftVars, pgVars, mdVars, rlVars, tdVars, tsVars,
           exVars, djVars, wkVars, crVars, plVars, clVars, cpVars, nuVars,
           wlVars, bfsVars, rtVars>>

\* ------------------------------------------------------- db/queries/jobs.py
\* INSERT INTO scrape_jobs (id, domain, template_id, status): other columns
\* take their defaults
create_job ==
    [ status        |-> PENDING,
      strategy_used |-> NoneStr,
      error_message |-> NoneStr,
      cost_usd      |-> 0,
      duration_ms   |-> NoneInt,
      pages_scraped |-> 0,
      completed_at  |-> NoneInt ]

\* UPDATE scrape_jobs SET status = $2 [, field = $n for each non-None kwarg]
update_job_status(row, status, strategy_used, error_message, cost_usd, duration_ms, pages_scraped, completed_at) ==
    [ status        |-> status,
      strategy_used |-> IF strategy_used # NoneStr THEN strategy_used
                        ELSE row.strategy_used,
      error_message |-> IF error_message # NoneStr THEN error_message
                        ELSE row.error_message,
      cost_usd      |-> IF cost_usd # NoneInt THEN cost_usd ELSE row.cost_usd,
      duration_ms   |-> IF duration_ms # NoneInt THEN duration_ms
                        ELSE row.duration_ms,
      pages_scraped |-> IF pages_scraped # NoneInt THEN pages_scraped
                        ELSE row.pages_scraped,
      completed_at  |-> IF completed_at # NoneInt THEN completed_at
                        ELSE row.completed_at ]

\* ------------------------------------------------------------ the workers
\* per-URL loop of a worker: a blocked fetch or a per-URL exception skips
\* the URL, the others are kept in order
KeepOk(urls, ok) == SelectSeq(urls, LAMBDA u : u \in ok)

\* BlogExtractorWorker.execute: one blog_url record per landing page that
\* was fetched, url = the landing page, metadata.article_urls = its links
BlogExtractorWorker_execute(urls, ok) ==
    LET kept == KeepOk(urls, ok)
    IN  [k \in 1..Len(kept) |->
            [url |-> kept[k], article_urls |-> extract_links(kept[k])]]

\* the other workers: one record per page that was fetched
Worker_execute(urls, ok) ==
    LET kept == KeepOk(urls, ok)
    IN  [k \in 1..Len(kept) |-> [url |-> kept[k], article_urls |-> <<>>]]

\* [u["url"] for u in classified_urls if u.get("data_type") == dtype]
UrlsOfType(cu, dtype) ==
    LET sel == SelectSeq(cu, LAMBDA u : u.data_type = dtype)
    IN  [k \in 1..Len(sel) |-> sel[k].url]

\* blog_urls = [r.url for r in result if r.url]
BlogUrlsOf(result) == [k \in 1..Len(result) |-> result[k].url]

\* a loop that walks data_types from the back
DTypeAt_m(types, k) == types[Len(types) + 1 - k]

\* the dtype the for loop is at
DTypeAt(types, k) == types[k]

\* the list each branch hands to worker.execute
WorkerInput(dtype, cu, blogs) ==
    IF dtype = "article" THEN blogs
    ELSE IF dtype = "tech_stack" THEN <<"root">>
    ELSE UrlsOfType(cu, dtype)

\* an except clause that logs and forgets the error
OnWorkerError_m(errs, dtype, msg) == errs

\* except Exception as e: errors.append(f"{dtype}: {str(e)}")
OnWorkerError(errs, dtype, msg) == Append(errs, <<dtype, msg>>)

\* -------------------------------------------------- services/escalation.py
BASIC_HTTP == "basic_http"
HEADLESS_BROWSER == "headless_browser"
HEADLESS_PROXY == "headless_proxy"

_TIER_ORDER == <<BASIC_HTTP, HEADLESS_BROWSER, HEADLESS_PROXY>>

\* ScrapingTier(value): the member with that value, else ValueError
IsScrapingTier(value) == \E k \in 1..Len(_TIER_ORDER) : _TIER_ORDER[k] = value

\* list.index: position of the first equal element
TierIndex(tier) ==
    CHOOSE k \in 1..Len(_TIER_ORDER) :
        /\ _TIER_ORDER[k] = tier
        /\ \A j \in 1..(k - 1) : _TIER_ORDER[j] # tier

\* status_code in (403, 429, 503)
BlockStatuses == <<403, 429, 503>>

\* a rule that overlooks the captcha flag
should_escalate_m(result) ==
    IF result.blocked THEN TRUE
    ELSE IF \E k \in 1..Len(BlockStatuses) : BlockStatuses[k] = result.status_code
         THEN TRUE
    ELSE result.status_code = 200 /\ result.html_len < 200

should_escalate(result) ==
    IF result.blocked THEN TRUE
    ELSE IF result.captcha_detected THEN TRUE
    ELSE IF \E k \in 1..Len(BlockStatuses) : BlockStatuses[k] = result.status_code
         THEN TRUE
    ELSE result.status_code = 200 /\ result.html_len < 200

\* a chain that has no end: the last tier is followed by itself
get_next_tier_m(current) ==
    IF ~IsScrapingTier(current) THEN NoneStr
    ELSE IF TierIndex(current) < Len(_TIER_ORDER)
         THEN _TIER_ORDER[TierIndex(current) + 1]
    ELSE current

get_next_tier(current) ==
    IF ~IsScrapingTier(current) THEN NoneStr
    ELSE IF TierIndex(current) < Len(_TIER_ORDER)
         THEN _TIER_ORDER[TierIndex(current) + 1]
    ELSE NoneStr

\* a lookup that trusts whatever string is stored
decide_initial_tier_m(meta) ==
    IF Len(meta) > 0
       /\ meta[1].last_successful_strategy # NoneStr
       /\ meta[1].last_successful_strategy # ""
    THEN meta[1].last_successful_strategy
    ELSE BASIC_HTTP

\* meta is the sequence of rows SELECT returns for the domain
decide_initial_tier(meta) ==
    IF Len(meta) > 0
       /\ meta[1].last_successful_strategy # NoneStr
       /\ meta[1].last_successful_strategy # ""
       /\ IsScrapingTier(meta[1].last_successful_strategy)
    THEN meta[1].last_successful_strategy
    ELSE BASIC_HTTP

\* ------------------------------------------------------------- inputs
StatusCodes == {0, 200, 301, 403, 404, 429, 500, 503}
HtmlLens == {0, 199, 200, 500}
Tiers == Range(_TIER_ORDER)

FetchResults ==
    [ status_code      : StatusCodes,
      html_len         : HtmlLens,
      tier_used        : Tiers,
      blocked          : BOOLEAN,
      captcha_detected : BOOLEAN ]

StoredStrategies ==
    Tiers \cup {NoneStr, "", "BASIC_HTTP", "playwright"}

MetaRows ==
    {<<>>} \cup
    {<<[last_successful_strategy |-> s, block_count |-> b]>> :
        s \in StoredStrategies, b \in {0, 1}}

\* ------------------------------------------------ queue/jobs.py, one run
\* time.time() - start_time once the awaited call has taken d seconds
Elapsed(d) == (now + d) - start_time

\* int((time.time() - start_time) * 1000)
DurationMs(d) == Elapsed(d) * 1000

\* the awaited call returns before arq's wait_for(job_timeout) fires
InTime(d) == Elapsed(d) < job_timeout

StartEvent(dtype, urls) ==
    [kind |-> "start", dtype |-> dtype, urls |-> urls, records |-> <<>>,
     exc |-> NoneStr]

EndEvent(dtype, urls, records, exc) ==
    [kind |-> "end", dtype |-> dtype, urls |-> urls, records |-> records,
     exc |-> exc]

JobInit ==
    /\ pc = "queued"
    /\ now = 0
    /\ start_time = 0
    /\ job = create_job
    /\ data_types \in SeqsUpTo(RequestedTypes, MaxTypes)
    /\ classified_urls = <<>>
    /\ total_data = 0
    /\ total_cost = 0
    /\ errors = <<>>
    /\ blog_urls = <<>>
    /\ idx = 1
    /\ cur_urls = <<>>
    /\ trace = <<>>
    /\ propagated = NoneStr
    /\ webhook = NoneStr

EscIdle ==
    /\ esc_meta = <<>>
    /\ esc_result = [status_code |-> 200, html_len |-> 500,
                     tier_used |-> BASIC_HTTP, blocked |-> FALSE,
                     captcha_detected |-> FALSE]
    /\ esc_initial = NoneStr
    /\ esc_escalate = FALSE
    /\ esc_next = NoneStr
    /\ esc_called = {}

\* lines 23-30: start_time = time.time(); update_job_status(RUNNING)
Start ==
    /\ pc = "queued"
    /\ start_time' = now
    /\ job' = update_job_status(job, RUNNING, NoneStr, NoneStr, NoneInt,
                                NoneInt, NoneInt, NoneInt)
    /\ pc' = "mapping"
    /\ UNCHANGED <<now, data_types, classified_urls, total_data, total_cost,
                   errors, blog_urls, idx, cur_urls, trace, propagated,
                   webhook>>

\* lines 152-162: the outer except Exception, entered d seconds after the
\* last step with exception text msg
OuterExcept(d, msg) ==
    /\ now' = now + d
    /\ job' = update_job_status(job, FAILED, NoneStr, msg, NoneInt,
                                DurationMs(d), NoneInt, NoneInt)
    /\ propagated' = msg
    /\ pc' = "raised"

\* lines 36-50: mapper.execute returns the classified URLs
MapReturn ==
    /\ pc = "mapping"
    /\ \E d \in StepSeconds, cu \in ClassifiedLists :
        /\ InTime(d)
        /\ now' = now + d
        /\ classified_urls' = cu
        /\ total_data' = Len(cu)
    /\ total_cost' = 0
    /\ errors' = <<>>
    /\ blog_urls' = <<>>
    /\ idx' = 1
    /\ pc' = "loop"
    /\ UNCHANGED <<start_time, job, data_types, cur_urls, trace, propagated,
                   webhook>>

\* line 37 raises: outside the per-worker try
MapRaise ==
    /\ pc = "mapping"
    /\ \E d \in StepSeconds : InTime(d) /\ OuterExcept(d, "map_error")
    /\ UNCHANGED <<start_time, data_types, classified_urls, total_data,
                   total_cost, errors, blog_urls, idx, cur_urls, trace,
                   webhook>>

\* lines 52-93: the for loop reaches a dtype with a branch and calls
\* worker.execute
WorkerStart ==
    /\ pc = "loop"
    /\ idx <= Len(data_types)
    /\ DTypeAt(data_types, idx) \in KnownTypes
    /\ LET dtype == DTypeAt(data_types, idx)
           urls == WorkerInput(dtype, classified_urls, blog_urls)
       IN  /\ cur_urls' = urls
           /\ trace' = Append(trace, StartEvent(dtype, urls))
    /\ pc' = "worker"
    /\ UNCHANGED <<now, start_time, job, data_types, classified_urls,
                   total_data, total_cost, errors, blog_urls, idx, propagated,
                   webhook>>

\* lines 52-93: a dtype no branch matches runs nothing
SkipUnknown ==
    /\ pc = "loop"
    /\ idx <= Len(data_types)
    /\ DTypeAt(data_types, idx) \notin KnownTypes
    /\ idx' = idx + 1
    /\ UNCHANGED <<pc, now, start_time, job, data_types, classified_urls,
                   total_data, total_cost, errors, blog_urls, cur_urls, trace,
                   propagated, webhook>>

\* worker.execute returns; ok is the set of URLs whose fetch and parse went
\* through
WorkerReturn ==
    /\ pc = "worker"
    /\ \E d \in StepSeconds, ok \in SUBSET Range(cur_urls) :
        LET dtype == DTypeAt(data_types, idx)
            result == IF dtype = "blog_url"
                      THEN BlogExtractorWorker_execute(cur_urls, ok)
                      ELSE Worker_execute(cur_urls, ok)
        IN  /\ InTime(d)
            /\ now' = now + d
            /\ blog_urls' = IF dtype = "blog_url" THEN BlogUrlsOf(result)
                            ELSE blog_urls
            /\ total_data' = total_data + Len(result)
            /\ trace' = Append(trace, EndEvent(dtype, cur_urls, result, NoneStr))
    /\ idx' = idx + 1
    /\ pc' = "loop"
    /\ UNCHANGED <<start_time, job, data_types, classified_urls, total_cost,
                   errors, cur_urls, propagated, webhook>>

\* lines 95-97: the per-worker except Exception
WorkerRaise ==
    /\ pc = "worker"
    /\ \E d \in StepSeconds :
        LET dtype == DTypeAt(data_types, idx)
        IN  /\ InTime(d)
            /\ now' = now + d
            /\ errors' = OnWorkerError(errors, dtype, "worker_error")
            /\ trace' = Append(trace, EndEvent(dtype, cur_urls, <<>>,
                                               "worker_error"))
    /\ idx' = idx + 1
    /\ pc' = "loop"
    /\ UNCHANGED <<start_time, job, data_types, classified_urls, total_data,
                   total_cost, blog_urls, cur_urls, propagated, webhook>>

\* lines 99-109: update_job_status(COMPLETED, ...)
Complete ==
    /\ pc = "loop"
    /\ idx > Len(data_types)
    /\ job' = update_job_status(job, COMPLETED, NoneStr, NoneStr, total_cost,
                                DurationMs(0), total_data, now)
    /\ pc' = "lookup"
    /\ UNCHANGED <<now, start_time, data_types, classified_urls, total_data,
                   total_cost, errors, blog_urls, idx, cur_urls, trace,
                   propagated, webhook>>

\* lines 115-116: get_tracked_domain returns no row, a row without
\* webhook_url, or a row with one
LookupReturn ==
    /\ pc = "lookup"
    /\ \E d \in StepSeconds, tracked \in {"absent", "no_webhook", "webhook"} :
        /\ InTime(d)
        /\ now' = now + d
        /\ pc' = IF tracked = "webhook" THEN "export" ELSE "returned"
    /\ UNCHANGED <<start_time, job, data_types, classified_urls, total_data,
                   total_cost, errors, blog_urls, idx, cur_urls, trace,
                   propagated, webhook>>

\* line 115 raises: inside the outer try, outside the webhook try
LookupRaise ==
    /\ pc = "lookup"
    /\ \E d \in StepSeconds : InTime(d) /\ OuterExcept(d, "lookup_error")
    /\ UNCHANGED <<start_time, data_types, classified_urls, total_data,
                   total_cost, errors, blog_urls, idx, cur_urls, trace,
                   webhook>>

\* lines 117-134: export_job_to_webhook returns True, returns False, or
\* raises into the except of line 126
Export ==
    /\ pc = "export"
    /\ \E d \in StepSeconds, outcome \in {"accepted", "rejected", "raised"} :
        /\ InTime(d)
        /\ now' = now + d
        /\ webhook' = outcome
    /\ pc' = "returned"
    /\ UNCHANGED <<start_time, job, data_types, classified_urls, total_data,
                   total_cost, errors, blog_urls, idx, cur_urls, trace,
                   propagated>>

\* arq runs the coroutine under asyncio.wait_for(job_timeout): the pending
\* await is cancelled with CancelledError, a BaseException that neither
\* except Exception clause catches
Timeout ==
    /\ pc \in {"mapping", "worker", "lookup", "export"}
    /\ now' = start_time + job_timeout
    /\ propagated' = "CancelledError"
    /\ pc' = "cancelled"
    /\ UNCHANGED <<start_time, job, data_types, classified_urls, total_data,
                   total_cost, errors, blog_urls, idx, cur_urls, trace,
                   webhook>>

Next ==
    \/ Start /\ UNCHANGED notJob
    \/ MapReturn /\ UNCHANGED notJob
    \/ MapRaise /\ UNCHANGED notJob
    \/ WorkerStart /\ UNCHANGED notJob
    \/ SkipUnknown /\ UNCHANGED notJob
    \/ WorkerReturn /\ UNCHANGED notJob
    \/ WorkerRaise /\ UNCHANGED notJob
    \/ Complete /\ UNCHANGED notJob
    \/ LookupReturn /\ UNCHANGED notJob
    \/ LookupRaise /\ UNCHANGED notJob
    \/ Export /\ UNCHANGED notJob
    \/ Timeout /\ UNCHANGED notJob


\* ------------------------------------- EscalationService on bounded inputs
JobIdle ==
    /\ pc = "queued"
    /\ now = 0
    /\ start_time = 0
    /\ job = create_job
    /\ data_types = <<>>
    /\ classified_urls = <<>>
    /\ total_data = 0
    /\ total_cost = 0
    /\ errors = <<>>
    /\ blog_urls = <<>>
    /\ idx = 1
    /\ cur_urls = <<>>
    /\ trace = <<>>
    /\ propagated = NoneStr
    /\ webhook = NoneStr

DecideInitialTier ==
    /\ "decide_initial_tier" \notin esc_called
    /\ esc_initial' = decide_initial_tier(esc_meta)
    /\ esc_called' = esc_called \cup {"decide_initial_tier"}
    /\ UNCHANGED <<esc_meta, esc_result, esc_escalate, esc_next>>

ShouldEscalate ==
    /\ "should_escalate" \notin esc_called
    /\ esc_escalate' = should_escalate(esc_result)
    /\ esc_called' = esc_called \cup {"should_escalate"}
    /\ UNCHANGED <<esc_meta, esc_result, esc_initial, esc_next>>

GetNextTier ==
    /\ "get_next_tier" \notin esc_called
    /\ esc_next' = get_next_tier(esc_result.tier_used)
    /\ esc_called' = esc_called \cup {"get_next_tier"}
    /\ UNCHANGED <<esc_meta, esc_result, esc_initial, esc_escalate>>

EscNext ==
    \/ DecideInitialTier /\ UNCHANGED notEsc
    \/ ShouldEscalate /\ UNCHANGED notEsc
    \/ GetNextTier /\ UNCHANGED notEsc


\* ------------------------------------------------------ scraping/fetcher/*
\* config/constants.py TIER_COSTS, in units of 0.0001 USD
TIER_COSTS ==
    [ basic_http |-> 1, headless_browser |-> 20, headless_proxy |-> 40 ]

\* What the transport under a fetcher does with one request: it answers, or
\* it fails with a timeout, with a network error, or with an exception that
\* is not an httpx.HTTPError (httpx.InvalidURL, a browser crash).
TransportKinds == {"response", "timeout", "network_error", "other_error"}

TransportFailures == TransportKinds \ {"response"}

\* captcha_signal: the body holds one of the captcha_signals of _detect_captcha
TransportOutcomes ==
    { t \in [ kind : {"response"}, status_code : StatusCodes \ {0},
              html_len : HtmlLens, captcha_signal : BOOLEAN ] :
        t.captcha_signal => t.html_len > 0 }
    \cup
    [ kind : TransportFailures, status_code : {0}, html_len : {0},
      captcha_signal : {FALSE} ]

FetcherClasses ==
    {"LakeFetcher", "LakeStealthFetcher", "LakeProxyFetcher", "HttpFetcher"}

\* a FetchResult returned by fetch
Returned(status_code, html_len, blocked, captcha, tier) ==
    [ raised           |-> FALSE,
      status_code      |-> status_code,
      html_len         |-> html_len,
      blocked          |-> blocked,
      captcha_detected |-> captcha,
      tier_used        |-> tier,
      cost_usd         |-> TIER_COSTS[tier] ]

\* an exception leaving fetch: there is no FetchResult
Raised ==
    [ raised           |-> TRUE,
      status_code      |-> NoneInt,
      html_len         |-> 0,
      blocked          |-> FALSE,
      captcha_detected |-> FALSE,
      tier_used        |-> NoneStr,
      cost_usd         |-> 0 ]

\* lake_fetcher.py 20-48, lake_stealth_fetcher.py 17-48, lake_proxy_fetcher.py
\* 21-55: the three bodies differ only in the tier they stamp on the result
LakeFetch(tier, t) ==
    IF t.kind = "response"
    THEN Returned(t.status_code, t.html_len,
                  t.status_code \in Range(BlockStatuses) \/ t.html_len < 200,
                  t.captcha_signal, tier)
    ELSE Returned(0, 0, TRUE, FALSE, tier)

\* legacy_http_fetcher.py 22-68
HttpFetcher_fetch(t) ==
    IF t.kind = "response"
    THEN LET blocked == t.status_code \in Range(BlockStatuses)
         IN  Returned(t.status_code, t.html_len,
                      IF ~blocked /\ t.html_len < 200 THEN TRUE ELSE blocked,
                      t.captcha_signal, BASIC_HTTP)
    ELSE IF t.kind = "timeout"
    THEN Returned(408, 0, TRUE, FALSE, BASIC_HTTP)
    ELSE IF t.kind = "network_error"
    THEN Returned(0, 0, TRUE, FALSE, BASIC_HTTP)
    ELSE Raised

FtIdle ==
    /\ ft_fetcher = NoneStr
    /\ ft_transport = [kind |-> "response", status_code |-> 200,
                       html_len |-> 500, captcha_signal |-> FALSE]
    /\ ft_out = Raised
    /\ ft_done = FALSE

FtInit ==
    /\ ft_fetcher \in FetcherClasses
    /\ ft_transport \in TransportOutcomes
    /\ ft_out = Raised
    /\ ft_done = FALSE

LakeFetcher_fetch ==
    /\ ft_fetcher = "LakeFetcher" /\ ~ft_done
    /\ ft_out' = LakeFetch(BASIC_HTTP, ft_transport)
    /\ ft_done' = TRUE
    /\ UNCHANGED <<ft_fetcher, ft_transport>>

LakeStealthFetcher_fetch ==
    /\ ft_fetcher = "LakeStealthFetcher" /\ ~ft_done
    /\ ft_out' = LakeFetch(HEADLESS_BROWSER, ft_transport)
    /\ ft_done' = TRUE
    /\ UNCHANGED <<ft_fetcher, ft_transport>>

LakeProxyFetcher_fetch ==
    /\ ft_fetcher = "LakeProxyFetcher" /\ ~ft_done
    /\ ft_out' = LakeFetch(HEADLESS_PROXY, ft_transport)
    /\ ft_done' = TRUE
    /\ UNCHANGED <<ft_fetcher, ft_transport>>

HttpFetcher_call ==
    /\ ft_fetcher = "HttpFetcher" /\ ~ft_done
    /\ ft_out' = HttpFetcher_fetch(ft_transport)
    /\ ft_done' = TRUE
    /\ UNCHANGED <<ft_fetcher, ft_transport>>

FetcherNext ==
    \/ LakeFetcher_fetch /\ UNCHANGED notFt
    \/ LakeStealthFetcher_fetch /\ UNCHANGED notFt
    \/ LakeProxyFetcher_fetch /\ UNCHANGED notFt
    \/ HttpFetcher_call /\ UNCHANGED notFt

\* ------------------------------------- workers/base.py, services/scraper.py
\* The three ways the code fetches one page: BaseWorker.fetch_page (every
\* worker of a scrape job), ScraperService.scrape with an EscalationService,
\* and ScraperService.scrape without one.
PageModes == {"fetch_page", "scrape_escalating", "scrape_plain"}

\* what the site answers to one request of the page
PageTransport ==
    { [kind |-> "response", status_code |-> 200, html_len |-> 500,
       captcha_signal |-> FALSE],
      [kind |-> "response", status_code |-> 200, html_len |-> 500,
       captcha_signal |-> TRUE],
      [kind |-> "response", status_code |-> 200, html_len |-> 199,
       captcha_signal |-> FALSE],
      [kind |-> "response", status_code |-> 403, html_len |-> 500,
       captcha_signal |-> FALSE],
      [kind |-> "response", status_code |-> 404, html_len |-> 0,
       captcha_signal |-> FALSE],
      [kind |-> "network_error", status_code |-> 0, html_len |-> 0,
       captcha_signal |-> FALSE] }

\* factory.py 13-18: create_fetcher(tier).fetch(url) on transport outcome t
create_fetcher(tier, t) ==
    LakeFetch(IF tier \in Tiers THEN tier ELSE BASIC_HTTP, t)

PgIdle ==
    /\ pg_mode = NoneStr
    /\ pg_pc = "done"
    /\ pg_tier = NoneStr
    /\ pg_arg = NoneStr
    /\ pg_meta = <<>>
    /\ pg_fetches = <<>>
    /\ pg_records = <<>>
    /\ pg_ret = NoneStr

\* fetch_page takes no tier; scrape takes tier = None or a tier
PgInit ==
    /\ pg_mode \in PageModes
    /\ pg_pc = "call"
    /\ pg_tier \in IF pg_mode = "fetch_page" THEN {NoneStr}
                   ELSE {NoneStr} \cup Tiers
    /\ pg_arg = pg_tier
    /\ pg_meta \in MetaRows
    /\ pg_fetches = <<>>
    /\ pg_records = <<>>
    /\ pg_ret = NoneStr

\* base.py 27-33: one fetch with the BASIC_HTTP fetcher, returned as it is
FetchPage ==
    /\ pg_mode = "fetch_page" /\ pg_pc = "call"
    /\ \E t \in PageTransport :
         pg_fetches' = Append(pg_fetches, create_fetcher(BASIC_HTTP, t))
    /\ pg_ret' = "result"
    /\ pg_pc' = "done"
    /\ UNCHANGED <<pg_mode, pg_tier, pg_arg, pg_meta, pg_records>>

\* scraper.py 30-34
ScrapeDecide ==
    /\ pg_mode # "fetch_page" /\ pg_pc = "call"
    /\ pg_tier' = IF pg_tier = NoneStr /\ pg_mode = "scrape_escalating"
                  THEN decide_initial_tier(pg_meta)
                  ELSE IF pg_tier # NoneStr THEN pg_tier ELSE BASIC_HTTP
    /\ pg_pc' = "fetch"
    /\ UNCHANGED <<pg_mode, pg_arg, pg_meta, pg_fetches, pg_records, pg_ret>>

\* scraper.py 37-38
ScrapeFetch ==
    /\ pg_pc = "fetch"
    /\ \E t \in PageTransport :
         pg_fetches' = Append(pg_fetches, create_fetcher(pg_tier, t))
    /\ pg_pc' = "fetched"
    /\ UNCHANGED <<pg_mode, pg_tier, pg_arg, pg_meta, pg_records, pg_ret>>

\* scraper.py 41-43: the condition under which scrape calls itself
Escalates ==
    /\ pg_mode = "scrape_escalating"
    /\ should_escalate(pg_fetches[Len(pg_fetches)])
    /\ get_next_tier(pg_tier) # NoneStr

\* scraper.py 45: return await self.scrape(url, tier=next_tier); the inner
\* call takes the else branch of line 30 and reaches the fetch with next_tier
ScrapeEscalate ==
    /\ pg_pc = "fetched"
    /\ Escalates
    /\ pg_tier' = get_next_tier(pg_tier)
    /\ pg_pc' = "fetch"
    /\ UNCHANGED <<pg_mode, pg_arg, pg_meta, pg_fetches, pg_records, pg_ret>>

\* scraper.py 47-67
ScrapeReturn ==
    /\ pg_pc = "fetched"
    /\ ~Escalates
    /\ pg_ret' = IF pg_fetches[Len(pg_fetches)].html_len = 0
                 THEN "success_false" ELSE "success_true"
    /\ pg_pc' = "done"
    /\ UNCHANGED <<pg_mode, pg_tier, pg_arg, pg_meta, pg_fetches, pg_records>>

PageNext ==
    \/ FetchPage /\ UNCHANGED notPg
    \/ ScrapeDecide /\ UNCHANGED notPg
    \/ ScrapeFetch /\ UNCHANGED notPg
    \/ ScrapeEscalate /\ UNCHANGED notPg
    \/ ScrapeReturn /\ UNCHANGED notPg

\* --------------------------- db/queries/domains.py, services/escalation.py
\* record_result calls in flight at once
MaxCalls == 2

\* last value of the database clock
MaxNow == 2

CallIds == 1..MaxCalls

\* a domain_metadata row; success_rate in percent, avg_cost_usd in 0.0001 USD
MdRow(strategy, block_count, last_scraped_at, success_rate, avg_cost_usd) ==
    [ last_successful_strategy |-> strategy,
      block_count              |-> block_count,
      last_scraped_at          |-> last_scraped_at,
      success_rate             |-> success_rate,
      avg_cost_usd             |-> avg_cost_usd ]

\* the rows a domain can have before the calls: none, or one written earlier
MdInitRows ==
    {<<>>} \cup
    { <<MdRow(s, b, 0, 90, 20)>> : s \in {NoneStr, BASIC_HTTP}, b \in {0, 2} }

COALESCE(a, b, none) == IF a # none THEN a ELSE b

\* domains.py 13-42 with the overwriting SET block_count = $3
upsert_domain_metadata_m(rows, strategy, inc, rate, cost, ts) ==
    IF rows = <<>>
    THEN <<MdRow(strategy, inc, ts, rate, cost)>>
    ELSE <<MdRow(COALESCE(strategy, rows[1].last_successful_strategy, NoneStr),
                 inc, ts,
                 COALESCE(rate, rows[1].success_rate, NoneInt),
                 COALESCE(cost, rows[1].avg_cost_usd, NoneInt))>>

\* domains.py 13-42: INSERT ... ON CONFLICT (domain) DO UPDATE, one statement,
\* applied to the row as it is when the statement takes the row; ts is NOW()
upsert_domain_metadata(rows, strategy, inc, rate, cost, ts) ==
    IF rows = <<>>
    THEN <<MdRow(strategy, inc, ts, rate, cost)>>
    ELSE <<MdRow(COALESCE(strategy, rows[1].last_successful_strategy, NoneStr),
                 rows[1].block_count + inc, ts,
                 COALESCE(rate, rows[1].success_rate, NoneInt),
                 COALESCE(cost, rows[1].avg_cost_usd, NoneInt))>>

\* escalation.py 53-60 storing the tier whatever success is
record_result_m(rows, c, ts) ==
    upsert_domain_metadata(rows, c.tier, IF c.blocked THEN 1 ELSE 0,
                           NoneInt, NoneInt, ts)

\* escalation.py 53-60: record_result(domain, result, success), where c holds
\* result.tier_used, result.blocked and success
record_result(rows, c, ts) ==
    upsert_domain_metadata(rows, IF c.success THEN c.tier ELSE NoneStr,
                           IF c.blocked THEN 1 ELSE 0, NoneInt, NoneInt, ts)

\* the arguments of one record_result call
RecordArgs == [tier : Tiers, blocked : BOOLEAN, success : BOOLEAN]

NoCall ==
    [phase |-> "idle", tier |-> BASIC_HTTP, blocked |-> FALSE,
     success |-> FALSE, ts |-> 0]

MdIdle ==
    /\ md_row = <<>>
    /\ md_first = <<>>
    /\ md_now = 0
    /\ md_calls = <<>>
    /\ md_log = <<>>

MdInit ==
    /\ md_row \in MdInitRows
    /\ md_first = md_row
    /\ md_now = 1
    /\ md_calls = [i \in CallIds |-> NoCall]
    /\ md_log = <<>>

\* the statement of call i reaches the server: its transaction starts and
\* NOW() is fixed at the start time; the calls are numbered in the order
\* their statements start
RecordBegin(i) ==
    /\ md_calls[i].phase = "idle"
    /\ \A j \in 1..(i - 1) : md_calls[j].phase # "idle"
    /\ \E a \in RecordArgs :
         md_calls' = [md_calls EXCEPT ![i] =
                        [phase |-> "begun", tier |-> a.tier,
                         blocked |-> a.blocked, success |-> a.success,
                         ts |-> md_now]]
    /\ UNCHANGED <<md_row, md_first, md_now, md_log>>

\* the statement of call i takes the row and writes it
RecordApply(i) ==
    /\ md_calls[i].phase = "begun"
    /\ md_row' = record_result(md_row, md_calls[i], md_calls[i].ts)
    /\ md_calls' = [md_calls EXCEPT ![i].phase = "applied"]
    /\ md_log' = Append(md_log, md_calls[i])
    /\ UNCHANGED <<md_first, md_now>>

\* time passes on the server
MdTick ==
    /\ md_now < MaxNow
    /\ md_now' = md_now + 1
    /\ UNCHANGED <<md_row, md_first, md_calls, md_log>>

MetaNext ==
    \/ (\E i \in CallIds : RecordBegin(i)) /\ UNCHANGED notMd
    \/ (\E i \in CallIds : RecordApply(i)) /\ UNCHANGED notMd
    \/ MdTick /\ UNCHANGED notMd

\* ------------------------------------------------ services/rate_limiter.py
\* coroutines that call wait
MaxCoroutines == 2

\* wait calls and resets in one run
MaxOps == 3

\* clock steps in one run
MaxTicks == 3

Coroutines == 1..MaxCoroutines

\* rate_limiter.py 8: default_delay_ms
default_delay_ms == 1000

\* time.time() when the limiter is built: the seconds since 1970, far above
\* every delay
Epoch == 10000

\* the clock moves in steps of half a second
TimeStep == 500

RlDomains == {"a.com", "b.com"}

\* the delay_ms arguments: None, 0, and delays below and above the default
DelayArgs == {NoneInt, 0, 500, 1500}

\* rate_limiter.py 14 taking the default whatever delay_ms is
delay_of_m(delay_ms) == default_delay_ms

\* rate_limiter.py 14: None and 0 are falsy
delay_of(delay_ms) ==
    IF delay_ms # NoneInt /\ delay_ms # 0 THEN delay_ms ELSE default_delay_ms

\* rate_limiter.py 15: self._last_request.get(domain, 0)
last_of(d) == IF rl_last[d] = NoneInt THEN 0 ELSE rl_last[d]

\* rate_limiter.py 16-17
remaining_of(d, delay_ms) == delay_of(delay_ms) - (rl_now - last_of(d))

IdleCo ==
    [pc |-> "idle", domain |-> NoneStr, delay_ms |-> NoneInt, called |-> 0,
     wake |-> 0]

\* one entry of rl_log
LogEntry(kind, d, delay_ms, called, returned) ==
    [kind |-> kind, domain |-> d, delay_ms |-> delay_ms, called |-> called,
     returned |-> returned]

RlIdle ==
    /\ rl_now = 0
    /\ rl_last = <<>>
    /\ rl_co = <<>>
    /\ rl_log = <<>>

\* rate_limiter.py 8-10
RlInit ==
    /\ rl_now = Epoch
    /\ rl_last = [d \in RlDomains |-> NoneInt]
    /\ rl_co = [c \in Coroutines |-> IdleCo]
    /\ rl_log = <<>>

\* no coroutine is inside wait
NoneWaiting == \A c \in Coroutines : rl_co[c].pc = "idle"

\* rate_limiter.py 14-19 and, when remaining <= 0, line 22 in the same step:
\* there is no await in between
WaitCall(c, d, delay_ms) ==
    /\ rl_co[c].pc = "idle"
    /\ Len(rl_log) + Cardinality({k \in Coroutines : rl_co[k].pc # "idle"})
         < MaxOps
    /\ IF remaining_of(d, delay_ms) > 0
       THEN /\ rl_co' = [rl_co EXCEPT ![c] =
                           [pc |-> "sleeping", domain |-> d,
                            delay_ms |-> delay_ms, called |-> rl_now,
                            wake |-> rl_now + remaining_of(d, delay_ms)]]
            /\ UNCHANGED <<rl_last, rl_log>>
       ELSE /\ rl_last' = [rl_last EXCEPT ![d] = rl_now]
            /\ rl_log' = Append(rl_log,
                                LogEntry("wait", d, delay_ms, rl_now, rl_now))
            /\ UNCHANGED rl_co
    /\ UNCHANGED rl_now

\* rate_limiter.py 20-22: asyncio.sleep(remaining) is over, not before the
\* time it was asked for
WaitWake(c) ==
    /\ rl_co[c].pc = "sleeping"
    /\ rl_now >= rl_co[c].wake
    /\ rl_last' = [rl_last EXCEPT ![rl_co[c].domain] = rl_now]
    /\ rl_log' = Append(rl_log,
                        LogEntry("wait", rl_co[c].domain, rl_co[c].delay_ms,
                                 rl_co[c].called, rl_now))
    /\ rl_co' = [rl_co EXCEPT ![c] = IdleCo]
    /\ UNCHANGED rl_now

\* rate_limiter.py 24-26
RlReset(d) ==
    /\ Len(rl_log) + Cardinality({k \in Coroutines : rl_co[k].pc # "idle"})
         < MaxOps
    /\ rl_last' = [rl_last EXCEPT ![d] = NoneInt]
    /\ rl_log' = Append(rl_log, LogEntry("reset", d, NoneInt, rl_now, rl_now))
    /\ UNCHANGED <<rl_now, rl_co>>

RlTick ==
    /\ rl_now + TimeStep <= Epoch + MaxTicks * TimeStep
    /\ rl_now' = rl_now + TimeStep
    /\ UNCHANGED <<rl_last, rl_co, rl_log>>

\* every call is issued after the previous one returned
RateNext ==
    \/ (\E c \in Coroutines, d \in RlDomains, m \in DelayArgs :
          NoneWaiting /\ WaitCall(c, d, m)) /\ UNCHANGED notRl
    \/ (\E c \in Coroutines : WaitWake(c)) /\ UNCHANGED notRl
    \/ (\E d \in RlDomains : NoneWaiting /\ RlReset(d)) /\ UNCHANGED notRl
    \/ RlTick /\ UNCHANGED notRl

\* the delays of the parallel fetches of one job: the default and one above
ParallelDelays == {NoneInt, 1500}

\* parallel per-URL fetches: a coroutine calls wait while another is inside
ParallelRateNext ==
    \/ (\E c \in Coroutines, d \in RlDomains, m \in ParallelDelays :
          WaitCall(c, d, m)) /\ UNCHANGED notRl
    \/ (\E c \in Coroutines : WaitWake(c)) /\ UNCHANGED notRl
    \/ RlTick /\ UNCHANGED notRl

\* ----------------- db/queries/tracked_domains.py, workers/scheduled_scraper.py
\* days the clock can advance in one run
MaxDays == 1

\* API calls (add, remove) in one run
MaxApiCalls == 1

\* scheduler ticks in one run
MaxRuns == 1

\* the day the run starts: late enough for a monthly row scraped before
StartDay == 40

TdDomains == {"a.com", "b.com"}

\* the domain the API calls of the run are about; the other one is only in
\* the table
ApiDomains == {"a.com"}

\* tracked_domains.py 9-14, in days
FREQUENCY_DELTAS == [daily |-> 1, weekly |-> 7, biweekly |-> 14, monthly |-> 30]

\* scrape_frequency is a plain str: "hourly" stands for a value that is not a
\* key of FREQUENCY_DELTAS
TdFrequencies == {"daily", "weekly", "biweekly", "monthly", "hourly"}

\* FREQUENCY_DELTAS.get(freq, ...) answering one week for every frequency
delta_of_m(freq) == 7

\* tracked_domains.py 37 and 108: FREQUENCY_DELTAS.get(freq, timedelta(weeks=1))
delta_of(freq) ==
    IF freq \in DOMAIN FREQUENCY_DELTAS THEN FREQUENCY_DELTAS[freq] ELSE 7

\* models/tracked_domain.py 8-10: the default data_types
DefaultDataTypes ==
    <<"blog_url", "article", "contact", "tech_stack", "resource", "pricing">>

\* a tracked_domains row
TdRow(d, active, freq, pages, types, last, next) ==
    [ domain               |-> d,
      exists               |-> TRUE,
      is_active            |-> active,
      scrape_frequency     |-> freq,
      max_pages            |-> pages,
      data_types           |-> types,
      last_auto_scraped_at |-> last,
      next_scrape_at       |-> next ]

\* no row for the domain
NoRow(d) ==
    [ domain               |-> d,
      exists               |-> FALSE,
      is_active            |-> FALSE,
      scrape_frequency     |-> NoneStr,
      max_pages            |-> 0,
      data_types           |-> <<>>,
      last_auto_scraped_at |-> NoneInt,
      next_scrape_at       |-> NoneInt ]

\* The rows a domain can have when the run starts: none; rows added and not
\* scraped since, due since yesterday or due tomorrow; rows the scheduler
\* scraped one period ago, due since yesterday.
TdInitRows(d) ==
    { NoRow(d),
      TdRow(d, TRUE, "monthly", 100, DefaultDataTypes, NoneInt, StartDay - 1),
      TdRow(d, FALSE, "weekly", 100, DefaultDataTypes, NoneInt, StartDay - 1),
      TdRow(d, TRUE, "biweekly", 100, DefaultDataTypes, NoneInt, StartDay + 1) }
    \cup
    IF d \in ApiDomains
    THEN { TdRow(d, TRUE, "daily", 100, DefaultDataTypes, StartDay - 2,
                 StartDay - 1),
           TdRow(d, TRUE, "weekly", 100, DefaultDataTypes, StartDay - 8,
                 StartDay - 1),
           TdRow(d, TRUE, "hourly", 100, DefaultDataTypes, StartDay - 8,
                 StartDay - 1) }
    ELSE {}

\* what add_site passes: api/routes/tracked.py 17-24
AddInputs ==
    [ scrape_frequency : {"daily", "monthly"}, max_pages : {50},
      data_types : {<<"blog_url">>} ]

NoAdd ==
    [ pending |-> FALSE, domain |-> NoneStr, scrape_frequency |-> NoneStr,
      max_pages |-> 0, data_types |-> <<>>, next_scrape |-> 0 ]

TdIdle ==
    /\ td_now = 0
    /\ td_rows = <<>>
    /\ td_jobs = <<>>
    /\ td_queue = <<>>
    /\ td_ops = 0
    /\ ad_call = NoAdd
    /\ tk_pc = "idle"
    /\ tk_due = {}
    /\ tk_cur = NoRow(NoneStr)
    /\ tk_job = 0
    /\ tk_freq = NoneStr
    /\ tk_runs = 0
    /\ tk_start = [rows |-> <<>>, at |-> 0, jobs |-> 0]
    /\ tk_log = <<>>

TdInit ==
    /\ td_now = StartDay
    /\ td_rows \in [TdDomains -> UNION {TdInitRows(d) : d \in TdDomains}]
    /\ \A d \in TdDomains : td_rows[d] \in TdInitRows(d)
    /\ td_jobs = <<>>
    /\ td_queue = <<>>
    /\ td_ops = 0
    /\ ad_call = NoAdd
    /\ tk_pc = "idle"
    /\ tk_due = {}
    /\ tk_cur = NoRow(NoneStr)
    /\ tk_job = 0
    /\ tk_freq = NoneStr
    /\ tk_runs = 0
    /\ tk_start = [rows |-> td_rows, at |-> td_now, jobs |-> 0]
    /\ tk_log = <<>>

\* variables of the API side and of the scheduler side
apiVars == <<td_ops, ad_call>>

tickVars == <<tk_pc, tk_due, tk_cur, tk_job, tk_freq, tk_runs, tk_start, tk_log>>

\* tracked_domains.py 91-96: WHERE is_active = true AND next_scrape_at <= NOW()
get_due_domains ==
    { td_rows[d] : d \in { e \in TdDomains :
                             /\ td_rows[e].exists
                             /\ td_rows[e].is_active
                             /\ td_rows[e].next_scrape_at <= td_now } }

LogOutcome(d, outcome, at, job_id) ==
    [domain |-> d, outcome |-> outcome, at |-> at, job_id |-> job_id]

\* scheduled_scraper.py 15-21; with nothing due the loop position is reached
\* with nothing to do, which is the return of line 19
TickSelect ==
    /\ tk_pc = "idle"
    /\ tk_runs < MaxRuns
    /\ tk_runs' = tk_runs + 1
    /\ tk_due' = get_due_domains
    /\ tk_start' = [rows |-> td_rows, at |-> td_now, jobs |-> Len(td_jobs)]
    /\ tk_log' = <<>>
    /\ tk_pc' = "loop"
    /\ UNCHANGED <<td_now, td_rows, td_jobs, td_queue, apiVars, tk_cur,
                   tk_job, tk_freq>>

\* scheduled_scraper.py 23-31: the next row of due, in the order the SELECT
\* returned them, and create_job
TickCreate ==
    /\ tk_pc = "loop"
    /\ \E r \in tk_due :
         /\ tk_cur' = r
         /\ tk_due' = tk_due \ {r}
         /\ td_jobs' = Append(td_jobs, [domain |-> r.domain, status |-> PENDING])
    /\ tk_job' = Len(td_jobs) + 1
    /\ tk_pc' = "enqueue"
    /\ UNCHANGED <<td_now, td_rows, td_queue, apiVars, tk_freq, tk_runs,
                   tk_start, tk_log>>

\* create_job raising out of the for loop: the tick ends there
TickCreateFails_m ==
    /\ tk_pc = "loop"
    /\ \E r \in tk_due :
         /\ tk_cur' = r
         /\ tk_due' = {}
         /\ tk_log' = Append(tk_log, LogOutcome(r.domain, "create_failed",
                                                td_now, 0))
    /\ UNCHANGED <<td_now, td_rows, td_jobs, td_queue, apiVars, tk_pc, tk_job,
                   tk_freq, tk_runs, tk_start>>

\* scheduled_scraper.py 31, 51-52: create_job raises
TickCreateFails ==
    /\ tk_pc = "loop"
    /\ \E r \in tk_due :
         /\ tk_cur' = r
         /\ tk_due' = tk_due \ {r}
         /\ tk_log' = Append(tk_log, LogOutcome(r.domain, "create_failed",
                                                td_now, 0))
    /\ UNCHANGED <<td_now, td_rows, td_jobs, td_queue, apiVars, tk_pc, tk_job,
                   tk_freq, tk_runs, tk_start>>

\* scheduled_scraper.py 34-43
TickEnqueue ==
    /\ tk_pc = "enqueue"
    /\ td_queue' = Append(td_queue,
                          [ function   |-> "process_scrape_job",
                            job_id     |-> tk_job,
                            domain     |-> tk_cur.domain,
                            max_pages  |-> tk_cur.max_pages,
                            data_types |-> tk_cur.data_types ])
    /\ tk_pc' = "mark_select"
    /\ UNCHANGED <<td_now, td_rows, td_jobs, apiVars, tk_due, tk_cur, tk_job,
                   tk_freq, tk_runs, tk_start, tk_log>>

\* scheduled_scraper.py 36, 51-52: enqueue_job raises
TickEnqueueFails ==
    /\ tk_pc = "enqueue"
    /\ tk_log' = Append(tk_log, LogOutcome(tk_cur.domain, "enqueue_failed",
                                           td_now, tk_job))
    /\ tk_pc' = "loop"
    /\ UNCHANGED <<td_now, td_rows, td_jobs, td_queue, apiVars, tk_due,
                   tk_cur, tk_job, tk_freq, tk_runs, tk_start>>

\* tracked_domains.py 101-108: the SELECT of mark_scraped; rows are never
\* deleted, so the row is there
TickMarkSelect ==
    /\ tk_pc = "mark_select"
    /\ td_rows[tk_cur.domain].exists
    /\ tk_freq' = td_rows[tk_cur.domain].scrape_frequency
    /\ tk_pc' = "mark_update"
    /\ UNCHANGED <<td_now, td_rows, td_jobs, td_queue, apiVars, tk_due,
                   tk_cur, tk_job, tk_runs, tk_start, tk_log>>

\* tracked_domains.py 109-117: the UPDATE of mark_scraped, and back to the
\* loop (scheduled_scraper.py 46-50)
TickMarkUpdate ==
    /\ tk_pc = "mark_update"
    /\ td_rows' = [td_rows EXCEPT
                     ![tk_cur.domain].last_auto_scraped_at = td_now,
                     ![tk_cur.domain].next_scrape_at = td_now + delta_of(tk_freq)]
    /\ tk_log' = Append(tk_log, LogOutcome(tk_cur.domain, "marked", td_now,
                                           tk_job))
    /\ tk_pc' = "loop"
    /\ UNCHANGED <<td_now, td_jobs, td_queue, apiVars, tk_due, tk_cur, tk_job,
                   tk_freq, tk_runs, tk_start>>

\* scheduled_scraper.py 45, 51-52: a statement of mark_scraped raises
TickMarkFails ==
    /\ tk_pc \in {"mark_select", "mark_update"}
    /\ tk_log' = Append(tk_log, LogOutcome(tk_cur.domain, "mark_failed",
                                           td_now, tk_job))
    /\ tk_pc' = "loop"
    /\ UNCHANGED <<td_now, td_rows, td_jobs, td_queue, apiVars, tk_due,
                   tk_cur, tk_job, tk_freq, tk_runs, tk_start>>

\* scheduled_scraper.py 19 and the end of the for loop: the locals are gone
TickReturn ==
    /\ tk_pc = "loop"
    /\ tk_due = {}
    /\ tk_pc' = "idle"
    /\ tk_cur' = NoRow(NoneStr)
    /\ tk_job' = 0
    /\ tk_freq' = NoneStr
    /\ UNCHANGED <<td_now, td_rows, td_jobs, td_queue, apiVars, tk_due,
                   tk_runs, tk_start, tk_log>>

\* tracked_domains.py 28-38: next_scrape is computed before the statement
AddCompute(d, a) ==
    /\ ~ad_call.pending
    /\ td_ops < MaxApiCalls
    /\ td_ops' = td_ops + 1
    /\ ad_call' = [ pending          |-> TRUE,
                    domain           |-> d,
                    scrape_frequency |-> a.scrape_frequency,
                    max_pages        |-> a.max_pages,
                    data_types       |-> a.data_types,
                    next_scrape      |-> td_now + delta_of(a.scrape_frequency) ]
    /\ UNCHANGED <<td_now, td_rows, td_jobs, td_queue, tickVars>>

\* tracked_domains.py 40-65: INSERT ... ON CONFLICT (domain) DO UPDATE
AddUpsert ==
    /\ ad_call.pending
    /\ td_rows' = [td_rows EXCEPT ![ad_call.domain] =
                     TdRow(ad_call.domain, TRUE, ad_call.scrape_frequency,
                           ad_call.max_pages, ad_call.data_types,
                           IF td_rows[ad_call.domain].exists
                           THEN td_rows[ad_call.domain].last_auto_scraped_at
                           ELSE NoneInt,
                           ad_call.next_scrape)]
    /\ ad_call' = NoAdd
    /\ UNCHANGED <<td_now, td_jobs, td_queue, td_ops, tickVars>>

\* tracked_domains.py 83-88
remove_tracked_domain(d) ==
    /\ td_ops < MaxApiCalls
    /\ td_ops' = td_ops + 1
    /\ td_rows' = IF td_rows[d].exists
                  THEN [td_rows EXCEPT ![d].is_active = FALSE]
                  ELSE td_rows
    /\ UNCHANGED <<td_now, td_jobs, td_queue, ad_call, tickVars>>

TdTick ==
    /\ td_now < StartDay + MaxDays
    /\ td_now' = td_now + 1
    /\ UNCHANGED <<td_rows, td_jobs, td_queue, apiVars, tickVars>>

\* api/routes/webhook.py 43-83: POST /webhook/trigger creates the job and
\* returns its id; the enqueue is a TODO comment (line 76)
trigger_scrape(d) ==
    /\ td_ops < MaxApiCalls
    /\ td_ops' = td_ops + 1
    /\ td_jobs' = Append(td_jobs, [domain |-> d, status |-> PENDING])
    /\ UNCHANGED <<td_now, td_rows, td_queue, ad_call, tickVars>>

\* the scheduler is between two ticks and no API call is in flight
Quiet == tk_pc = "idle" /\ ~ad_call.pending

\* ticks and API calls taking turns, the day changing between them
TickNext ==
    \/ (Quiet /\ TickSelect) /\ UNCHANGED notTd
    \/ TickCreate /\ UNCHANGED notTd
    \/ TickCreateFails /\ UNCHANGED notTd
    \/ TickEnqueue /\ UNCHANGED notTd
    \/ TickEnqueueFails /\ UNCHANGED notTd
    \/ TickMarkSelect /\ UNCHANGED notTd
    \/ TickMarkUpdate /\ UNCHANGED notTd
    \/ TickMarkFails /\ UNCHANGED notTd
    \/ TickReturn /\ UNCHANGED notTd
    \/ (\E d \in ApiDomains, a \in AddInputs : Quiet /\ AddCompute(d, a))
          /\ UNCHANGED notTd
    \/ AddUpsert /\ UNCHANGED notTd
    \/ (\E d \in ApiDomains : Quiet /\ remove_tracked_domain(d))
          /\ UNCHANGED notTd
    \/ (Quiet /\ TdTick) /\ UNCHANGED notTd

\* the ways a scrape job is created by the scheduler and by the webhook:
\* ticks, API calls and webhook triggers taking turns
IntakeNext ==
    \/ (Quiet /\ TickSelect) /\ UNCHANGED notTd
    \/ TickCreate /\ UNCHANGED notTd
    \/ TickCreateFails /\ UNCHANGED notTd
    \/ TickEnqueue /\ UNCHANGED notTd
    \/ TickEnqueueFails /\ UNCHANGED notTd
    \/ TickMarkSelect /\ UNCHANGED notTd
    \/ TickMarkUpdate /\ UNCHANGED notTd
    \/ TickMarkFails /\ UNCHANGED notTd
    \/ TickReturn /\ UNCHANGED notTd
    \/ (\E d \in ApiDomains, a \in AddInputs : Quiet /\ AddCompute(d, a))
          /\ UNCHANGED notTd
    \/ AddUpsert /\ UNCHANGED notTd
    \/ (\E d \in ApiDomains : Quiet /\ trigger_scrape(d)) /\ UNCHANGED notTd
    \/ (Quiet /\ TdTick) /\ UNCHANGED notTd

\* ticks and API calls interleaved statement by statement
TrackNext ==
    \/ TickSelect /\ UNCHANGED notTd
    \/ TickCreate /\ UNCHANGED notTd
    \/ TickCreateFails /\ UNCHANGED notTd
    \/ TickEnqueue /\ UNCHANGED notTd
    \/ TickEnqueueFails /\ UNCHANGED notTd
    \/ TickMarkSelect /\ UNCHANGED notTd
    \/ TickMarkUpdate /\ UNCHANGED notTd
    \/ TickMarkFails /\ UNCHANGED notTd
    \/ TickReturn /\ UNCHANGED notTd
    \/ (\E d \in ApiDomains, a \in AddInputs : AddCompute(d, a))
          /\ UNCHANGED notTd
    \/ AddUpsert /\ UNCHANGED notTd
    \/ (\E d \in ApiDomains : remove_tracked_domain(d)) /\ UNCHANGED notTd
    \/ TdTick /\ UNCHANGED notTd

\* ------------------ db/queries/discovery.py, check_tracked_searches
TsSearches == {"s1", "s2"}

\* a tracked_searches row
TsRow(s, active, freq, last, next, runs) ==
    [ id               |-> s,
      is_active        |-> active,
      query            |-> s,
      scrape_frequency |-> freq,
      last_run_at      |-> last,
      next_run_at      |-> next,
      total_runs       |-> runs ]

\* The rows a tracked search can have when the run starts: created and not
\* run since, due since yesterday or due tomorrow; soft-deleted while due;
\* run one period ago and due again.
TsInitRows(s) ==
    { TsRow(s, TRUE, "weekly", NoneInt, StartDay - 1, 0),
      TsRow(s, FALSE, "daily", NoneInt, StartDay - 1, 0),
      TsRow(s, TRUE, "daily", StartDay - 2, StartDay - 1, 1) }
    \cup
    IF s = "s2"
    THEN { TsRow(s, TRUE, "monthly", NoneInt, StartDay + 1, 0) }
    ELSE {}

NoSearch ==
    [ id |-> NoneStr, is_active |-> FALSE, query |-> NoneStr,
      scrape_frequency |-> NoneStr, last_run_at |-> NoneInt,
      next_run_at |-> NoneInt, total_runs |-> 0 ]

TsIdle ==
    /\ ts_rows = <<>>
    /\ ts_jobs = <<>>
    /\ ts_queue = <<>>
    /\ ts_pc = "idle"
    /\ ts_due = {}
    /\ ts_cur = NoSearch
    /\ ts_job = 0
    /\ ts_freq = NoneStr
    /\ ts_runs = 0
    /\ ts_start = [rows |-> <<>>, at |-> 0]
    /\ ts_log = <<>>

TsInit ==
    /\ ts_rows \in [TsSearches -> UNION {TsInitRows(s) : s \in TsSearches}]
    /\ \A s \in TsSearches : ts_rows[s] \in TsInitRows(s)
    /\ ts_jobs = <<>>
    /\ ts_queue = <<>>
    /\ ts_pc = "idle"
    /\ ts_due = {}
    /\ ts_cur = NoSearch
    /\ ts_job = 0
    /\ ts_freq = NoneStr
    /\ ts_runs = 0
    /\ ts_start = [rows |-> ts_rows, at |-> StartDay]
    /\ ts_log = <<>>

\* discovery.py 275-282: WHERE is_active = true AND next_run_at <= NOW()
get_due_tracked_searches ==
    { ts_rows[s] : s \in { e \in DOMAIN ts_rows :
                             /\ ts_rows[e].is_active
                             /\ ts_rows[e].next_run_at <= td_now } }

\* discover_jobs.py 168-174; with nothing due the loop position is reached
\* with nothing to do, which is the return of line 172
SearchSelect ==
    /\ ts_pc = "idle"
    /\ ts_runs < MaxRuns
    /\ ts_runs' = ts_runs + 1
    /\ ts_due' = get_due_tracked_searches
    /\ ts_start' = [rows |-> ts_rows, at |-> td_now]
    /\ ts_log' = <<>>
    /\ ts_pc' = "loop"
    /\ UNCHANGED <<ts_rows, ts_jobs, ts_queue, ts_cur, ts_job, ts_freq>>

\* discover_jobs.py 176-190: the next row of due and create_discovery_job
\* (discovery.py 29-54: the new job has status searching)
SearchCreate ==
    /\ ts_pc = "loop"
    /\ \E r \in ts_due :
         /\ ts_cur' = r
         /\ ts_due' = ts_due \ {r}
         /\ ts_jobs' = Append(ts_jobs, [query |-> r.query, status |-> "searching"])
    /\ ts_job' = Len(ts_jobs) + 1
    /\ ts_pc' = "enqueue"
    /\ UNCHANGED <<ts_rows, ts_queue, ts_freq, ts_runs, ts_start, ts_log>>

\* discover_jobs.py 179-190, 208-209: building the input or
\* create_discovery_job raises
SearchCreateFails ==
    /\ ts_pc = "loop"
    /\ \E r \in ts_due :
         /\ ts_cur' = r
         /\ ts_due' = ts_due \ {r}
         /\ ts_log' = Append(ts_log, LogOutcome(r.id, "create_failed", td_now, 0))
    /\ UNCHANGED <<ts_rows, ts_jobs, ts_queue, ts_pc, ts_job, ts_freq,
                   ts_runs, ts_start>>

\* discover_jobs.py 193-198
SearchEnqueue ==
    /\ ts_pc = "enqueue"
    /\ ts_queue' = Append(ts_queue, [ function     |-> "process_discovery_job",
                                      discovery_id |-> ts_job ])
    /\ ts_pc' = "mark_select"
    /\ UNCHANGED <<ts_rows, ts_jobs, ts_due, ts_cur, ts_job, ts_freq,
                   ts_runs, ts_start, ts_log>>

\* discover_jobs.py 195, 208-209: enqueue_job raises
SearchEnqueueFails ==
    /\ ts_pc = "enqueue"
    /\ ts_log' = Append(ts_log, LogOutcome(ts_cur.id, "enqueue_failed", td_now,
                                           ts_job))
    /\ ts_pc' = "loop"
    /\ UNCHANGED <<ts_rows, ts_jobs, ts_queue, ts_due, ts_cur, ts_job,
                   ts_freq, ts_runs, ts_start>>

\* discovery.py 291-297: the SELECT of mark_tracked_search_run; rows are
\* never deleted, so the row is there
SearchMarkSelect ==
    /\ ts_pc = "mark_select"
    /\ ts_freq' = ts_rows[ts_cur.id].scrape_frequency
    /\ ts_pc' = "mark_update"
    /\ UNCHANGED <<ts_rows, ts_jobs, ts_queue, ts_due, ts_cur, ts_job,
                   ts_runs, ts_start, ts_log>>

\* discovery.py 298-310: the UPDATE of mark_tracked_search_run, and back to
\* the loop (discover_jobs.py 202-207)
SearchMarkUpdate ==
    /\ ts_pc = "mark_update"
    /\ ts_rows' = [ts_rows EXCEPT
                     ![ts_cur.id].last_run_at = td_now,
                     ![ts_cur.id].next_run_at = td_now + delta_of(ts_freq),
                     ![ts_cur.id].total_runs = @ + 1]
    /\ ts_log' = Append(ts_log, LogOutcome(ts_cur.id, "marked", td_now, ts_job))
    /\ ts_pc' = "loop"
    /\ UNCHANGED <<ts_jobs, ts_queue, ts_due, ts_cur, ts_job, ts_freq,
                   ts_runs, ts_start>>

\* discover_jobs.py 200, 208-209: a statement of mark_tracked_search_run
\* raises
SearchMarkFails ==
    /\ ts_pc \in {"mark_select", "mark_update"}
    /\ ts_log' = Append(ts_log, LogOutcome(ts_cur.id, "mark_failed", td_now,
                                           ts_job))
    /\ ts_pc' = "loop"
    /\ UNCHANGED <<ts_rows, ts_jobs, ts_queue, ts_due, ts_cur, ts_job,
                   ts_freq, ts_runs, ts_start>>

\* discover_jobs.py 172 and the end of the for loop: the locals are gone
SearchReturn ==
    /\ ts_pc = "loop"
    /\ ts_due = {}
    /\ ts_pc' = "idle"
    /\ ts_cur' = NoSearch
    /\ ts_job' = 0
    /\ ts_freq' = NoneStr
    /\ UNCHANGED <<ts_rows, ts_jobs, ts_queue, ts_due, ts_runs, ts_start,
                   ts_log>>

\* One of the two cron functions runs in a run, tick after tick, the day
\* changing between ticks; the two share no table.
SchedNext ==
    \/ (ts_runs = 0 /\ TickSelect) /\ UNCHANGED notTd
    \/ TickCreate /\ UNCHANGED notTd
    \/ TickCreateFails /\ UNCHANGED notTd
    \/ TickEnqueue /\ UNCHANGED notTd
    \/ TickEnqueueFails /\ UNCHANGED notTd
    \/ TickMarkSelect /\ UNCHANGED notTd
    \/ TickMarkUpdate /\ UNCHANGED notTd
    \/ TickMarkFails /\ UNCHANGED notTd
    \/ TickReturn /\ UNCHANGED notTd
    \/ (tk_runs = 0 /\ SearchSelect) /\ UNCHANGED notTs
    \/ SearchCreate /\ UNCHANGED notTs
    \/ SearchCreateFails /\ UNCHANGED notTs
    \/ SearchEnqueue /\ UNCHANGED notTs
    \/ SearchEnqueueFails /\ UNCHANGED notTs
    \/ SearchMarkSelect /\ UNCHANGED notTs
    \/ SearchMarkUpdate /\ UNCHANGED notTs
    \/ SearchMarkFails /\ UNCHANGED notTs
    \/ SearchReturn /\ UNCHANGED notTs
    \/ (tk_pc = "idle" /\ ts_pc = "idle" /\ TdTick) /\ UNCHANGED notTd

\* ------------------------------------------- services/domain_extractor.py
\* search results in one response
MaxResults == 3

\* SearchResult.domain is a plain str; "" is the netloc of a URL without host
SearchDomains == {"a.com", "b.com", "c.com"}

\* SearchResult.score: float | None
SearchScores == {NoneInt, 0, 2}

\* lakecurrent.py 12-19: a SearchResult; the results of one response differ
\* in their url, which is told by the position in the response
SearchResult(url, domain, score) ==
    [url |-> url, domain |-> domain, score |-> score]

ResultLists ==
    { [i \in 1..Len(s) |-> SearchResult(i, s[i].domain, s[i].score)] :
        s \in SeqsUpTo([domain : SearchDomains, score : SearchScores],
                       MaxResults) }

\* the argument skip_domains: set[str] | None
SkipNone == [none |-> TRUE, domains |-> {}]

SkipArgs ==
    {SkipNone} \cup
    { [none |-> FALSE, domains |-> S] : S \in SUBSET {"a.com", "d.com"} }

\* Python's (x or 0) on a score
ScoreOr0(score) == IF score = NoneInt THEN 0 ELSE score

\* a dict is the sequence of its items in insertion order; the position of
\* a key, 0 when absent
DictIndex(d, key) ==
    IF \E i \in 1..Len(d) : d[i].key = key
    THEN CHOOSE i \in 1..Len(d) : d[i].key = key
    ELSE 0

\* d[key] = value: a new key goes last, a known key keeps its place
DictSet(d, key, value) ==
    IF DictIndex(d, key) = 0
    THEN Append(d, [key |-> key, value |-> value])
    ELSE [d EXCEPT ![DictIndex(d, key)].value = value]

\* the update replacing an entry by a result of equal score as well
ExtractStep_m(domain_map, result, skip) ==
    IF result.domain \in skip THEN domain_map
    ELSE LET k == DictIndex(domain_map, result.domain)
         IN  IF k = 0 \/ ScoreOr0(result.score) >= ScoreOr0(domain_map[k].value.score)
             THEN DictSet(domain_map, result.domain, result)
             ELSE domain_map

\* domain_extractor.py 19-23: the body of the for loop
ExtractStep(domain_map, result, skip) ==
    IF result.domain \in skip THEN domain_map
    ELSE LET k == DictIndex(domain_map, result.domain)
         IN  IF k = 0 \/ ScoreOr0(result.score) > ScoreOr0(domain_map[k].value.score)
             THEN DictSet(domain_map, result.domain, result)
             ELSE domain_map

RECURSIVE ExtractLoop(_, _, _, _)
\* domain_extractor.py 18: for result in results, from position i on
ExtractLoop(results, skip, i, domain_map) ==
    IF i > Len(results) THEN domain_map
    ELSE ExtractLoop(results, skip, i + 1,
                     ExtractStep(domain_map, results[i], skip))

\* domain_extractor.py 6-25
extract_unique_domains(results, skip_domains) ==
    LET skip == IF skip_domains.none THEN {} ELSE skip_domains.domains
    IN  ExtractLoop(results, skip, 1, <<>>)

ExIdle ==
    /\ ex_results = <<>>
    /\ ex_skip = SkipNone
    /\ ex_map = <<>>
    /\ ex_done = FALSE

ExInit ==
    /\ ex_results \in ResultLists
    /\ ex_skip \in SkipArgs
    /\ ex_map = <<>>
    /\ ex_done = FALSE

\* one call extract_unique_domains(results, skip_domains=skip_domains)
ExtractCall ==
    /\ ~ex_done
    /\ ex_map' = extract_unique_domains(ex_results, ex_skip)
    /\ ex_done' = TRUE
    /\ UNCHANGED <<ex_results, ex_skip>>

ExtractNext ==
    \/ ExtractCall /\ UNCHANGED notEx

\* ------------------------------ queue/discover_jobs.py, one discovery run
\* config/settings.py 8-35: the Settings class, which defines none of the
\* fields process_discovery_job reads (lakecurrent_base_url,
\* lakecurrent_timeout, discovery_skip_recent_days,
\* discovery_max_domains_per_query)
SettingsOfSource ==
    [has_discovery_fields |-> FALSE, discovery_max_domains_per_query |-> 0]

\* a Settings class that defines them, with a cap of 1 or 2 domains
SettingsWithDiscovery ==
    { [has_discovery_fields |-> TRUE, discovery_max_domains_per_query |-> n] :
        n \in {1, 2} }

\* what search_pages returns: lists of results with or without a score
DiscoveryResultLists ==
    { r \in ResultLists : \A i \in 1..Len(r) : r[i].score \in {NoneInt, 2} }

\* what get_recently_scraped_domains returns
RecentlyScraped == SUBSET {"a.com", "b.com"}

\* a discovery_jobs row; completed_at is a time or None
DiscoveryRow(status, found, skipped, stored, error, completed) ==
    [ exists         |-> TRUE,
      status         |-> status,
      domains_found  |-> found,
      domains_skipped |-> skipped,
      search_results |-> stored,
      error_message  |-> error,
      completed_at   |-> completed ]

NoDiscoveryRow ==
    [ exists |-> FALSE, status |-> NoneStr, domains_found |-> 0,
      domains_skipped |-> 0, search_results |-> FALSE,
      error_message |-> NoneStr, completed_at |-> NoneInt ]

\* discovery.py 29-54: the row create_discovery_job inserts
NewDiscoveryRow == DiscoveryRow("searching", 0, 0, FALSE, NoneStr, NoneInt)

\* datetime.now() of discover_jobs.py 133
CompletedTime == 1

\* discovery.py 118-151: a discovery_job_domains row
DomainRow(domain, result, scrape_job_id, status, skip_reason) ==
    [ domain        |-> domain,
      source_url    |-> result.url,
      source_score  |-> result.score,
      scrape_job_id |-> scrape_job_id,
      status        |-> status,
      skip_reason   |-> skip_reason ]

\* every item of domain_map, whatever the cap
Capped_m(domain_map, max_domains) == domain_map

\* discover_jobs.py 60: list(domain_map.items())[:max_domains]
Capped(domain_map, max_domains) ==
    SubSeq(domain_map, 1, IF Len(domain_map) < max_domains
                          THEN Len(domain_map) ELSE max_domains)

RECURSIVE BestLoop(_, _, _, _)
\* discover_jobs.py 107-111: the position of the best result of a skipped
\* domain, 0 standing for best = None
BestLoop(results, domain, i, best) ==
    IF i > Len(results) THEN best
    ELSE BestLoop(results, domain, i + 1,
                  IF /\ results[i].domain = domain
                     /\ \/ best = 0
                        \/ ScoreOr0(results[i].score)
                             > ScoreOr0(results[best].score)
                  THEN i ELSE best)

DjIdle ==
    /\ dj_settings = SettingsOfSource
    /\ dj_results = <<>>
    /\ dj_skip = {}
    /\ dj_job = NoDiscoveryRow
    /\ dj_rows = <<>>
    /\ dj_jobs = <<>>
    /\ dj_queue = <<>>
    /\ dj_pc = "idle"
    /\ dj_map = <<>>
    /\ dj_items = <<>>
    /\ dj_skipped = {}
    /\ dj_ret = NoneStr

DjInit ==
    /\ dj_settings \in {SettingsOfSource} \cup SettingsWithDiscovery
    /\ dj_results \in DiscoveryResultLists
    /\ dj_skip \in RecentlyScraped
    /\ dj_job \in {NewDiscoveryRow, NoDiscoveryRow}
    /\ dj_rows = <<>>
    /\ dj_jobs = <<>>
    /\ dj_queue = <<>>
    /\ dj_pc = "start"
    /\ dj_map = <<>>
    /\ dj_items = <<>>
    /\ dj_skipped = {}
    /\ dj_ret = NoneStr

djLocals == <<dj_map, dj_items, dj_skipped>>

djTables == <<dj_rows, dj_jobs, dj_queue>>

djInputs == <<dj_settings, dj_results, dj_skip>>

\* discover_jobs.py 25-30
DjGetJob ==
    /\ dj_pc = "start"
    /\ IF dj_job.exists
       THEN dj_pc' = "client" /\ dj_ret' = dj_ret
       ELSE dj_pc' = "done" /\ dj_ret' = "not_found"
    /\ UNCHANGED <<djInputs, dj_job, djTables, djLocals>>

\* discover_jobs.py 25: get_discovery_job raises, before the try statement
DjGetJobFails ==
    /\ dj_pc = "start"
    /\ dj_pc' = "done"
    /\ dj_ret' = "raised"
    /\ UNCHANGED <<djInputs, dj_job, djTables, djLocals>>

\* discover_jobs.py 32-35: the client is built from two settings, before the
\* try statement; a field the Settings class does not define raises
\* AttributeError
DjClient ==
    /\ dj_pc = "client"
    /\ IF dj_settings.has_discovery_fields
       THEN dj_pc' = "search" /\ dj_ret' = dj_ret
       ELSE dj_pc' = "done" /\ dj_ret' = "raised"
    /\ UNCHANGED <<djInputs, dj_job, djTables, djLocals>>

\* discover_jobs.py 39-50: search_pages, then the results are stored
DjSearch ==
    /\ dj_pc = "search"
    /\ dj_job' = [dj_job EXCEPT !.status = "searching", !.search_results = TRUE]
    /\ dj_pc' = "extract"
    /\ UNCHANGED <<djInputs, djTables, djLocals, dj_ret>>

\* an extraction that is handed no skip set
DjExtract_m ==
    /\ dj_pc = "extract"
    /\ dj_map' = extract_unique_domains(dj_results,
                                        [none |-> FALSE, domains |-> {}])
    /\ dj_items' = Capped(dj_map', dj_settings.discovery_max_domains_per_query)
    /\ dj_pc' = "loop"
    /\ UNCHANGED <<djInputs, dj_job, djTables, dj_skipped, dj_ret>>

\* discover_jobs.py 53-63
DjExtract ==
    /\ dj_pc = "extract"
    /\ dj_map' = extract_unique_domains(dj_results,
                                        [none |-> FALSE, domains |-> dj_skip])
    /\ dj_items' = Capped(dj_map', dj_settings.discovery_max_domains_per_query)
    /\ dj_pc' = "loop"
    /\ UNCHANGED <<djInputs, dj_job, djTables, dj_skipped, dj_ret>>

\* discover_jobs.py 66-74: the next item of domain_items and create_job
DjCreate ==
    /\ dj_pc = "loop"
    /\ dj_items # <<>>
    /\ dj_jobs' = Append(dj_jobs, [domain |-> Head(dj_items).key,
                                   status |-> PENDING])
    /\ dj_pc' = "insert"
    /\ UNCHANGED <<djInputs, dj_job, dj_rows, dj_queue, djLocals, dj_ret>>

\* discover_jobs.py 77-87
DjInsert ==
    /\ dj_pc = "insert"
    /\ dj_rows' = Append(dj_rows, DomainRow(Head(dj_items).key,
                                            Head(dj_items).value,
                                            Len(dj_jobs), "scraping", NoneStr))
    /\ dj_pc' = "enqueue"
    /\ UNCHANGED <<djInputs, dj_job, dj_jobs, dj_queue, djLocals, dj_ret>>

\* discover_jobs.py 90-99, and on to the next item
DjEnqueue ==
    /\ dj_pc = "enqueue"
    /\ dj_queue' = Append(dj_queue, [ function |-> "process_scrape_job",
                                      job_id   |-> Len(dj_jobs),
                                      domain   |-> Head(dj_items).key ])
    /\ dj_items' = Tail(dj_items)
    /\ dj_pc' = "loop"
    /\ UNCHANGED <<djInputs, dj_job, dj_rows, dj_jobs, dj_map, dj_skipped,
                   dj_ret>>

\* discover_jobs.py 102-104, the for loop over domain_items being over
DjSkippedSet ==
    /\ dj_pc = "loop"
    /\ dj_items = <<>>
    /\ dj_skipped' = {dj_results[i].domain : i \in 1..Len(dj_results)}
                       \cap dj_skip
    /\ dj_pc' = "skipped"
    /\ UNCHANGED <<djInputs, dj_job, djTables, dj_map, dj_items, dj_ret>>

\* discover_jobs.py 105-123: one domain of the set skipped, in the order
\* the set yields them
DjInsertSkipped ==
    /\ dj_pc = "skipped"
    /\ \E domain \in dj_skipped :
         LET best == BestLoop(dj_results, domain, 1, 0)
         IN  /\ dj_rows' = IF best # 0
                           THEN Append(dj_rows,
                                       DomainRow(domain, dj_results[best], 0,
                                                 "skipped", "recently scraped"))
                           ELSE dj_rows
             /\ dj_skipped' = dj_skipped \ {domain}
    /\ UNCHANGED <<djInputs, dj_job, dj_jobs, dj_queue, dj_map, dj_items,
                   dj_pc, dj_ret>>

\* discover_jobs.py 126-149 with update_discovery_status (discovery.py
\* 70-105), which leaves a column alone when its argument is None
DjFinish ==
    /\ dj_pc = "skipped"
    /\ dj_skipped = {}
    /\ LET domain_items ==
              Capped(dj_map, dj_settings.discovery_max_domains_per_query)
           skipped == {dj_results[i].domain : i \in 1..Len(dj_results)}
                         \cap dj_skip
       IN  dj_job' = [dj_job EXCEPT
                        !.status = IF domain_items # <<>> THEN "scraping"
                                   ELSE "completed",
                        !.domains_found = Len(dj_map),
                        !.domains_skipped = Cardinality(skipped),
                        !.completed_at = IF domain_items = <<>>
                                         THEN CompletedTime ELSE @]
    /\ dj_pc' = "done"
    /\ dj_ret' = "ok"
    /\ UNCHANGED <<djInputs, djTables, djLocals>>

\* discover_jobs.py 151-159: a statement inside the try raises
DjFails ==
    /\ dj_pc \in {"search", "extract", "loop", "insert", "enqueue", "skipped"}
    /\ dj_job' = [dj_job EXCEPT !.status = "failed", !.error_message = "error"]
    /\ dj_pc' = "done"
    /\ dj_ret' = "raised"
    /\ UNCHANGED <<djInputs, djTables, djLocals>>

DiscoveryNext ==
    \/ DjGetJob /\ UNCHANGED notDj
    \/ DjGetJobFails /\ UNCHANGED notDj
    \/ DjClient /\ UNCHANGED notDj
    \/ DjSearch /\ UNCHANGED notDj
    \/ DjExtract /\ UNCHANGED notDj
    \/ DjCreate /\ UNCHANGED notDj
    \/ DjInsert /\ UNCHANGED notDj
    \/ DjEnqueue /\ UNCHANGED notDj
    \/ DjSkippedSet /\ UNCHANGED notDj
    \/ DjInsertSkipped /\ UNCHANGED notDj
    \/ DjFinish /\ UNCHANGED notDj
    \/ DjFails /\ UNCHANGED notDj

\* queue/jobs.py 13-30: the worker takes the oldest entry of the queue and
\* process_scrape_job sets the job's row to running
ChildJobStarts ==
    /\ dj_queue # <<>>
    /\ dj_jobs' = [dj_jobs EXCEPT ![Head(dj_queue).job_id].status = RUNNING]
    /\ dj_queue' = Tail(dj_queue)
    /\ UNCHANGED <<djInputs, dj_job, dj_rows, djLocals, dj_pc, dj_ret>>

\* queue/jobs.py 99-109 and the except branch after it: update_job_status
\* writes the scrape_jobs row of the job and no other table
ChildJobEnds(j, status) ==
    /\ j \in 1..Len(dj_jobs)
    /\ dj_jobs[j].status = RUNNING
    /\ dj_jobs' = [dj_jobs EXCEPT ![j].status = status]
    /\ UNCHANGED <<djInputs, dj_job, dj_rows, dj_queue, djLocals, dj_pc,
                   dj_ret>>

\* api/routes/discover.py 77-96: domains_pending of the status response
domains_pending(rows) ==
    Cardinality({ i \in 1..Len(rows) :
                    rows[i].status \in {"pending", "scraping"} })

ChildrenNext ==
    \/ DjGetJob /\ UNCHANGED notDj
    \/ DjGetJobFails /\ UNCHANGED notDj
    \/ DjClient /\ UNCHANGED notDj
    \/ DjSearch /\ UNCHANGED notDj
    \/ DjExtract /\ UNCHANGED notDj
    \/ DjCreate /\ UNCHANGED notDj
    \/ DjInsert /\ UNCHANGED notDj
    \/ DjEnqueue /\ UNCHANGED notDj
    \/ DjSkippedSet /\ UNCHANGED notDj
    \/ DjInsertSkipped /\ UNCHANGED notDj
    \/ DjFinish /\ UNCHANGED notDj
    \/ DjFails /\ UNCHANGED notDj
    \/ ChildJobStarts /\ UNCHANGED notDj
    \/ (\E j \in 1..Len(dj_jobs), status \in {COMPLETED, FAILED} :
          ChildJobEnds(j, status)) /\ UNCHANGED notDj

\* ------------------------------------------------------- queue/worker.py
\* jobs enqueued in one run
MaxEnqueued == 3

\* quarters of an hour the clock goes through in one run
MaxQuarters == 4

\* the job names the producers enqueue: api/routes/scrape.py,
\* workers/scheduled_scraper.py 36-43 and queue/discover_jobs.py 92-99
\* (process_scrape_job); api/routes/discover.py 42-45 and
\* queue/discover_jobs.py 195-198 (process_discovery_job)
EnqueuedNames == {"process_scrape_job", "process_discovery_job"}

\* worker.py 25: WorkerSettings.functions
WorkerSettings_functions == {"process_scrape_job"}

\* worker.py 31-34: WorkerSettings.cron_jobs, each with the minutes of the
\* hour it runs at
WorkerSettings_cron_jobs ==
    { [name |-> "check_scheduled_scrapes", minute |-> {0}],
      [name |-> "process_signals", minute |-> {0, 15, 30, 45}] }

\* the minute of the hour at a quarter
MinuteOf(quarter) == (quarter % 4) * 15

WkIdle ==
    /\ wk_queue = <<>>
    /\ wk_done = <<>>
    /\ wk_time = 0
    /\ wk_cron = {}
    /\ wk_enqueued = 0

\* a worker started right after a full hour: nothing queued, no cron run yet
WkInit ==
    /\ wk_queue = <<>>
    /\ wk_done = <<>>
    /\ wk_time = 0
    /\ wk_cron = {}
    /\ wk_enqueued = 0

\* redis.enqueue_job(name, ...) by a route or by a scheduler
EnqueueJob(name) ==
    /\ wk_enqueued < MaxEnqueued
    /\ wk_enqueued' = wk_enqueued + 1
    /\ wk_queue' = Append(wk_queue, [id |-> wk_enqueued + 1, function |-> name])
    /\ UNCHANGED <<wk_done, wk_time, wk_cron>>

\* the worker takes the oldest job of the queue: a name of
\* WorkerSettings.functions is called, any other name ends the job as failed
\* with "function not found" without calling anything
WorkerRunJob ==
    /\ wk_queue # <<>>
    /\ wk_done' = Append(wk_done,
                         [ id       |-> Head(wk_queue).id,
                           function |-> Head(wk_queue).function,
                           outcome  |-> IF Head(wk_queue).function
                                            \in WorkerSettings_functions
                                        THEN "executed" ELSE "not_found" ])
    /\ wk_queue' = Tail(wk_queue)
    /\ UNCHANGED <<wk_time, wk_cron, wk_enqueued>>

\* a quarter of an hour passes and the worker runs the cron jobs whose
\* minute has come
WorkerCron ==
    /\ wk_time < MaxQuarters
    /\ wk_time' = wk_time + 1
    /\ wk_cron' = wk_cron \cup
                  { [name |-> c.name, at |-> wk_time + 1] :
                      c \in { x \in WorkerSettings_cron_jobs :
                                MinuteOf(wk_time + 1) \in x.minute } }
    /\ UNCHANGED <<wk_queue, wk_done, wk_enqueued>>

WorkerNext ==
    \/ (\E name \in EnqueuedNames : EnqueueJob(name)) /\ UNCHANGED notWk
    \/ WorkerRunJob /\ UNCHANGED notWk
    \/ WorkerCron /\ UNCHANGED notWk

\* ------------------------------------------------------------ utils/url.py
\* A string is the sequence of its pieces: the characters : / ; ? # that
\* the URL syntax gives a meaning to, each a piece of its own, and words of
\* other characters.
UrlDelimiters == {":", "/", ";", "?", "#"}

\* str.lower() on a piece
LowerPiece(p) ==
    CASE p = "HTTP" -> "http"
      [] p = "A.com" -> "a.com"
      [] p = "A" -> "a"
      [] p = ".PDF" -> ".pdf"
      [] p = "Blog" -> "blog"
      [] OTHER -> p

\* str.lower()
Lower(s) == [i \in 1..Len(s) |-> LowerPiece(s[i])]

\* the words that do not begin with a letter
NotAlphaStart == {".pdf", ".PDF", ".xml", ".html", "2024", "01", "-"}

\* str.find(piece, start): the first position from start on, 0 when absent
Find(s, piece, start) ==
    IF \E i \in start..Len(s) : s[i] = piece
    THEN CHOOSE i \in start..Len(s) :
            s[i] = piece /\ \A j \in start..(i - 1) : s[j] # piece
    ELSE 0

\* str.rfind(piece): the last position, 0 when absent
RFind(s, piece) ==
    IF \E i \in 1..Len(s) : s[i] = piece
    THEN CHOOSE i \in 1..Len(s) :
            s[i] = piece /\ \A j \in (i + 1)..Len(s) : s[j] # piece
    ELSE 0

\* s[i:] and s[:i] with positions counted from 1
From(s, i) == SubSeq(s, i, Len(s))

Upto(s, i) == SubSeq(s, 1, i)

\* str.startswith(prefix)
StartsWith(s, prefix) ==
    Len(s) >= Len(prefix) /\ SubSeq(s, 1, Len(prefix)) = prefix

\* the element of a one-element set: { F(x) : x \in {e} } computes e once
\* and hands its value to F
The(s) == CHOOSE x \in s : TRUE

\* the position of the ":" that ends the scheme, 0 when there is no scheme:
\* what precedes the first ":" is made of scheme characters and begins
\* with a letter
SchemeEnd(url) ==
    IF /\ Find(url, ":", 1) > 1
       /\ url[1] \notin NotAlphaStart
       /\ \A j \in 1..(Find(url, ":", 1) - 1) : url[j] \notin UrlDelimiters
    THEN Find(url, ":", 1)
    ELSE 0

\* the netloc follows "//" up to the first of / ? #
NetlocEnd(rest) ==
    IF \E i \in 3..Len(rest) : rest[i] \in {"/", "?", "#"}
    THEN CHOOSE i \in 3..Len(rest) :
            /\ rest[i] \in {"/", "?", "#"}
            /\ \A j \in 3..(i - 1) : rest[j] \notin {"/", "?", "#"}
    ELSE Len(rest) + 1

\* the fragment follows the first "#" and the query the first "?" before it
SplitTail(scheme, netloc, rest, h) ==
    The({ [ scheme |-> scheme,
            netloc |-> netloc,
            path |-> IF Find(rest3, "?", 1) > 0
                     THEN Upto(rest3, Find(rest3, "?", 1) - 1) ELSE rest3,
            query |-> IF Find(rest3, "?", 1) > 0
                      THEN From(rest3, Find(rest3, "?", 1) + 1) ELSE <<>>,
            fragment |-> IF h > 0 THEN From(rest, h + 1) ELSE <<>> ] :
          rest3 \in {IF h > 0 THEN Upto(rest, h - 1) ELSE rest} })

SplitNetloc(scheme, rest) ==
    IF StartsWith(rest, <<"/", "/">>)
    THEN The({ The({ SplitTail(scheme, SubSeq(rest, 3, delim - 1), rest2,
                               Find(rest2, "#", 1)) :
                     rest2 \in {From(rest, delim)} }) :
               delim \in {NetlocEnd(rest)} })
    ELSE SplitTail(scheme, <<>>, rest, Find(rest, "#", 1))

\* urllib.parse.urlsplit: the scheme is lowered
urlsplit(url) ==
    The({ IF c > 0 THEN SplitNetloc(Lower(Upto(url, c - 1)), From(url, c + 1))
          ELSE SplitNetloc(<<>>, url) :
          c \in {SchemeEnd(url)} })

\* the schemes of urllib.parse.uses_params and uses_netloc that occur here
uses_params == {<<>>, <<"http">>, <<"https">>, <<"tel">>}

uses_netloc == {<<>>, <<"http">>, <<"https">>}

\* the position of the first ";" of the last segment of the path, 0 when
\* it has none
ParamsAt(path) ==
    IF RFind(path, "/") > 0 THEN Find(path, ";", RFind(path, "/"))
    ELSE Find(path, ";", 1)

\* urllib.parse.urlparse: urlsplit, then the params are split from the path
\* at the first ";" of its last segment
urlparse(url) ==
    The({ The({ [ scheme   |-> s.scheme,
                  netloc   |-> s.netloc,
                  path     |-> IF i > 0 THEN Upto(s.path, i - 1) ELSE s.path,
                  params   |-> IF i > 0 THEN From(s.path, i + 1) ELSE <<>>,
                  query    |-> s.query,
                  fragment |-> s.fragment ] :
                i \in {IF s.scheme \in uses_params THEN ParamsAt(s.path)
                       ELSE 0} }) :
          s \in {urlsplit(url)} })

\* urllib.parse.urlunparse
urlunparse(parts) ==
    The({ The({ (IF p.scheme # <<>> THEN p.scheme \o <<":">> ELSE <<>>)
                \o (IF \/ p.netloc # <<>>
                       \/ /\ p.scheme # <<>>
                          /\ p.scheme \in uses_netloc
                          /\ ~StartsWith(url1, <<"/", "/">>)
                    THEN <<"/", "/">> \o p.netloc \o
                         (IF url1 # <<>> /\ url1[1] # "/" THEN <<"/">> \o url1
                          ELSE url1)
                    ELSE url1)
                \o (IF p.query # <<>> THEN <<"?">> \o p.query ELSE <<>>)
                \o (IF p.fragment # <<>> THEN <<"#">> \o p.fragment
                    ELSE <<>>) :
                url1 \in {IF p.params # <<>> THEN p.path \o <<";">> \o p.params
                          ELSE p.path} }) :
          p \in {parts} })

RECURSIVE RStripSlash(_)
\* str.rstrip("/")
RStripSlash(s) ==
    IF s # <<>> /\ s[Len(s)] = "/" THEN RStripSlash(Upto(s, Len(s) - 1)) ELSE s

\* url.py 4-19 with base_url = None, as url_validator.py 13 calls it
normalize_url(url) ==
    The({ The({ urlunparse([parsed EXCEPT
                              !.scheme = Lower(parsed.scheme),
                              !.netloc = Lower(parsed.netloc),
                              !.fragment = <<>>,
                              !.path = IF path = <<>> THEN <<"/">> ELSE path]) :
                path \in {RStripSlash(parsed.path)} }) :
          parsed \in {urlparse(url)} })

\* url.py 46-70
skip_extensions ==
    { ".pdf", ".jpg", ".jpeg", ".png", ".gif", ".svg", ".ico", ".css", ".js",
      ".woff", ".woff2", ".ttf", ".eot", ".mp3", ".mp4", ".avi", ".mov",
      ".zip", ".gz", ".tar", ".xml", ".rss", ".atom" }

\* url.py 39-72
is_valid_scrape_url(url) ==
    IF \/ url = <<>>
       \/ StartsWith(url, <<"#">>)
       \/ StartsWith(url, <<"mailto", ":">>)
       \/ StartsWith(url, <<"tel", ":">>)
       \/ StartsWith(url, <<"javascript", ":">>)
    THEN FALSE
    ELSE \A path_lower \in {Lower(urlparse(url).path)} :
            ~(path_lower # <<>> /\ path_lower[Len(path_lower)] \in skip_extensions)

\* ---------------------------------------------------- services/crawler.py
\* <loc> entries in one sitemap
MaxLocs == 2

\* what re.findall finds between <loc> and </loc>: a page, a document, a
\* nested sitemap, a mail address
LocPool ==
    { <<"http", ":", "/", "/", "a.com", "/", "a">>,
      <<"http", ":", "/", "/", "a.com", "/", "a", ".pdf">>,
      <<"http", ":", "/", "/", "a.com", "/", "sitemap", "-", "blog", ".xml">>,
      <<"mailto", ":", "a">> }

\* the pages of the site a crawl can come upon
CrawlPool ==
    { <<"https", ":", "/", "/", "a.com">>,
      <<"https", ":", "/", "/", "a.com", "/", "a">>,
      <<"https", ":", "/", "/", "a.com", "/", "blog">> }

\* the answer to GET <base>/sitemap.xml: a status code, or 0 for a request
\* that raised
SitemapStatuses == {200, 404, 0}

CrawlLimits == {1, 100}

CrIdle ==
    /\ cr_status = 0
    /\ cr_locs = <<>>
    /\ cr_limit = 0
    /\ cr_pc = "idle"
    /\ cr_sitemap_urls = {}
    /\ cr_crawled = FALSE
    /\ cr_ret = {}

CrInit ==
    /\ cr_status \in SitemapStatuses
    /\ cr_locs \in SeqsUpTo(LocPool, MaxLocs)
    /\ cr_limit \in CrawlLimits
    /\ cr_pc = "start"
    /\ cr_sitemap_urls = {}
    /\ cr_crawled = FALSE
    /\ cr_ret = {}

\* every <loc> entry of a 200 answer, scrape-worthy or not
try_sitemap_m ==
    IF cr_status = 200 THEN Range(cr_locs) ELSE {}

\* crawler.py 37-49: the <loc> entries of a 200 answer that pass
\* is_valid_scrape_url, the empty set for any other answer
try_sitemap ==
    IF cr_status = 200
    THEN { u \in Range(cr_locs) : is_valid_scrape_url(u) }
    ELSE {}

\* list(s)[:limit] of a set: any limit of its elements, or all of them
FirstOfSet(s, limit) ==
    { t \in SUBSET s :
        Cardinality(t) = IF Cardinality(s) < limit THEN Cardinality(s)
                         ELSE limit }

\* crawler.py 25-29
MapTrySitemap ==
    /\ cr_pc = "start"
    /\ cr_sitemap_urls' = try_sitemap
    /\ cr_pc' = "sitemap_tried"
    /\ UNCHANGED <<cr_status, cr_locs, cr_limit, cr_crawled, cr_ret>>

\* crawler.py 30-32
MapReturnSitemap ==
    /\ cr_pc = "sitemap_tried"
    /\ cr_sitemap_urls # {}
    /\ cr_ret' \in FirstOfSet(cr_sitemap_urls, cr_limit)
    /\ cr_pc' = "done"
    /\ UNCHANGED <<cr_status, cr_locs, cr_limit, cr_sitemap_urls, cr_crawled>>

\* crawler.py 35, 51-96: _crawl_recursive is invoked; what it returns is
\* the base URL and pages of the site, limit of them at most
MapCrawlRecursive ==
    /\ cr_pc = "sitemap_tried"
    /\ cr_sitemap_urls = {}
    /\ cr_crawled' = TRUE
    /\ \E discovered \in SUBSET CrawlPool :
         /\ <<"https", ":", "/", "/", "a.com">> \in discovered
         /\ cr_ret' \in FirstOfSet(discovered, cr_limit)
    /\ cr_pc' = "done"
    /\ UNCHANGED <<cr_status, cr_locs, cr_limit, cr_sitemap_urls>>

CrawlerNext ==
    \/ MapTrySitemap /\ UNCHANGED notCr
    \/ MapReturnSitemap /\ UNCHANGED notCr
    \/ MapCrawlRecursive /\ UNCHANGED notCr

\* ------------------------- scraping/validator, workers/resource_finder.py
\* URLs in one map_domain answer
MaxRawUrls == 2

\* cards, and asset links, on one page
MaxLinks == 1

\* what a map of the site can hold: a page, the same page with a trailing
\* slash and in capitals, a document with and without a trailing slash, a
\* mail address
RawUrlPool ==
    { <<"http", ":", "/", "/", "a.com", "/", "a">>,
      <<"HTTP", ":", "/", "/", "A.com", "/", "a", "/">>,
      <<"http", ":", "/", "/", "a.com", "/", "a", ".pdf">>,
      <<"http", ":", "/", "/", "a.com", "/", "a", ".pdf", "/">>,
      <<"mailto", ":", "a">> }

\* the href attributes of a page's anchors
HrefPool ==
    { <<"http", ":", "/", "/", "a.com", "/", "a">>,
      <<"http", ":", "/", "/", "a.com", "/", "a", ".pdf">>,
      <<"http", ":", "/", "/", "a.com", "/", "download", "/", "a">> }

\* the page the resource finder fetched
ResourcePage == <<"http", ":", "/", "/", "a.com", "/", "resources">>

\* a card: the href of its first anchor (empty when it has none) and whether
\* _parse_resource_item keeps it (a title of 5 characters, a recognized type)
Cards ==
    [ href : {<<>>, <<"http", ":", "/", "/", "a.com", "/", "a", ".pdf">>},
      kept : BOOLEAN ]

\* an anchor: its href and whether it carries a download attribute
Anchors == [href : HrefPool, download : BOOLEAN]

PlIdle ==
    /\ pl_raw_urls = <<>>
    /\ pl_valid_urls = <<>>
    /\ pl_cards = <<>>
    /\ pl_links = <<>>
    /\ pl_resources = <<>>
    /\ pl_pc = "idle"

PlInit ==
    /\ pl_raw_urls \in SeqsUpTo(RawUrlPool, MaxRawUrls)
    /\ pl_valid_urls = <<>>
    /\ pl_cards \in SeqsUpTo(Cards, MaxLinks)
    /\ pl_links \in SeqsUpTo(Anchors, MaxLinks)
    /\ pl_resources = <<>>
    /\ pl_pc = "start"

RECURSIVE ValidateLoop(_, _)
\* url_validator.py 9-16: the test is made on the URL as given, the URL
\* kept is the normalized one
ValidateLoop(urls, result) ==
    IF urls = <<>> THEN result
    ELSE LET url == Head(urls)
             normalized == normalize_url(url)
         IN  IF ~is_valid_scrape_url(url) THEN ValidateLoop(Tail(urls), result)
             ELSE IF normalized \in Range(result)
                  THEN ValidateLoop(Tail(urls), result)
                  ELSE ValidateLoop(Tail(urls), Append(result, normalized))

\* url_validator.py 4-18
validate_and_deduplicate(urls) == ValidateLoop(urls, <<>>)

\* urllib.parse.urljoin for an empty url and for a url that has a netloc:
\* the base, or the url parsed with the base's scheme as default and put
\* together again
urljoin(base, url) ==
    IF url = <<>> THEN base
    ELSE The({ The({ IF u.scheme = <<>>
                     THEN urlunparse([u EXCEPT !.scheme = b.scheme])
                     ELSE IF u.scheme # b.scheme THEN url
                     ELSE urlunparse(u) :
                     u \in {urlparse(url)} }) :
               b \in {urlparse(base)} })

\* resource_parser.py 46: a[href$=".pdf"], a[download], a[href*="download"]
IsAssetLink(a) ==
    \/ a.href[Len(a.href)] = ".pdf"
    \/ a.download
    \/ \E i \in 1..Len(a.href) : a.href[i] = "download"

RECURSIVE DedupeByUrl(_, _)
\* resource_parser.py 118-127
DedupeByUrl(urls, result) ==
    IF urls = <<>> THEN result
    ELSE IF Head(urls) \in Range(result) THEN DedupeByUrl(Tail(urls), result)
         ELSE DedupeByUrl(Tail(urls), Append(result, Head(urls)))

\* resource_parser.py 23-62: the URLs of the kept cards, then those of the
\* asset links, without repetitions
extract_resources(cards, links) ==
    LET card_urls == [i \in 1..Len(SelectSeq(cards, LAMBDA c : c.kept)) |->
                        urljoin(ResourcePage,
                                SelectSeq(cards, LAMBDA c : c.kept)[i].href)]
        assets == SelectSeq(links, IsAssetLink)
        link_urls == [i \in 1..Len(assets) |->
                        urljoin(ResourcePage, assets[i].href)]
    IN  DedupeByUrl(card_urls \o link_urls, <<>>)

\* domain_mapper.py 29-63: the records inserted carry the validated URLs
MapperExecute ==
    /\ pl_pc = "start"
    /\ pl_valid_urls' = validate_and_deduplicate(pl_raw_urls)
    /\ pl_pc' = "mapped"
    /\ UNCHANGED <<pl_raw_urls, pl_cards, pl_links, pl_resources>>

\* resource_finder.py 22-56: one record per resource of the page, with the
\* resource's URL
ResourceFinderExecute ==
    /\ pl_pc = "mapped"
    /\ pl_resources' = extract_resources(pl_cards, pl_links)
    /\ pl_pc' = "done"
    /\ UNCHANGED <<pl_raw_urls, pl_valid_urls, pl_cards, pl_links>>

PipelineNext ==
    \/ MapperExecute /\ UNCHANGED notPl
    \/ ResourceFinderExecute /\ UNCHANGED notPl

\* ------------------------------------- scraping/parser/url_classifier.py
\* path segments in one classified URL
MaxSegments == 2

\* a regular expression of _PATTERNS: "word" is "/" followed by one of the
\* alternatives and a word boundary ("/plans?\b" has the alternatives plan
\* and plans), "prefix" is r"/case-stud" with no boundary, "date" is
\* r"/\d{4}/\d{2}/"
Word(alts) == [kind |-> "word", alts |-> alts]

Plural(w) == Word({<<w>>, <<w \o "s">>})

\* url_classifier.py 7-78, in the order of the list
PATTERNS ==
    << [ data_type |-> "pricing",
         patterns |-> << Word({<<"pricing">>}), Plural("plan"),
                         Plural("package") >> ],
       [ data_type |-> "contact",
         patterns |-> << Word({<<"contact">>}),
                         Word({<<"get", "-", "in", "-", "touch">>}),
                         Word({<<"demo">>}), Word({<<"request">>}),
                         Plural("career"), Plural("job") >> ],
       [ data_type |-> "resource",
         patterns |-> << Plural("resource"), Plural("whitepaper"),
                         [kind |-> "prefix", alts |-> {<<"case", "-">>}],
                         Plural("webinar"), Plural("ebook"),
                         Word({<<"library">>}), Plural("download"),
                         Plural("guide") >> ],
       [ data_type |-> "blog_url",
         patterns |-> << Word({<<"blog">>}), Plural("insight"),
                         Word({<<"news">>}), Plural("article"),
                         Plural("post"), Word({<<"stories">>}),
                         [kind |-> "date", alts |-> {}] >> ],
       [ data_type |-> "contact",
         patterns |-> << Word({<<"team">>}), Word({<<"about">>}),
                         Word({<<"leadership">>}), Word({<<"people">>}),
                         Word({<<"our", "-", "team">>}),
                         Word({<<"staff">>}) >> ] >>

\* the words that begin with "stud", of four digits and of two digits
StudWords == {"stud", "study", "studies"}

FourDigits == {"2024"}

TwoDigits == {"01"}

\* s[i : i + n] with positions counted from 1, shorter at the end of s
Slice(s, i, n) ==
    SubSeq(s, i, IF i + n - 1 > Len(s) THEN Len(s) ELSE i + n - 1)

\* pattern.search(path) under re.IGNORECASE: a word of the path is one
\* piece, so that a word boundary follows every piece
Search(pattern, path) ==
    \E i \in 1..Len(path) :
        /\ path[i] = "/"
        /\ CASE pattern.kind = "word" ->
                  \E a \in pattern.alts : Lower(Slice(path, i + 1, Len(a))) = a
             [] pattern.kind = "prefix" ->
                  /\ Lower(Slice(path, i + 1, 2)) \in pattern.alts
                  /\ i + 3 <= Len(path)
                  /\ LowerPiece(path[i + 3]) \in StudWords
             [] pattern.kind = "date" ->
                  /\ i + 4 <= Len(path)
                  /\ path[i + 1] \in FourDigits
                  /\ path[i + 2] = "/"
                  /\ path[i + 3] \in TwoDigits
                  /\ path[i + 4] = "/"

\* any(pattern.search(path) for pattern in patterns) of one rule
RuleMatches(i, path) ==
    \E j \in 1..Len(PATTERNS[i].patterns) :
        Search(PATTERNS[i].patterns[j], path)

RECURSIVE FirstMatch_m(_, _)
\* the last rule that matches
FirstMatch_m(path, i) ==
    IF i > Len(PATTERNS) THEN 0
    ELSE IF FirstMatch_m(path, i + 1) # 0 THEN FirstMatch_m(path, i + 1)
         ELSE IF RuleMatches(i, path) THEN i ELSE 0

RECURSIVE FirstMatch(_, _)
\* url_classifier.py 86-93: the rule at which the loops return, from rule i
\* on, 0 when they run to their end
FirstMatch(path, i) ==
    IF i > Len(PATTERNS) THEN 0
    ELSE IF RuleMatches(i, path) THEN i
         ELSE FirstMatch(path, i + 1)

\* url_classifier.py 81-100; the confidence in tenths
classify_url(url) ==
    The({ IF rule # 0
          THEN [url |-> url, data_type |-> PATTERNS[rule].data_type,
                confidence |-> 8]
          ELSE [url |-> url, data_type |-> "blog_url", confidence |-> 2] :
          rule \in { FirstMatch(path, 1) : path \in {urlparse(url).path} } })

\* the segments of the paths classified
SegmentPool ==
    { <<"pricing">>, <<"plans">>, <<"contact">>, <<"careers">>,
      <<"resources">>, <<"case", "-", "studies">>, <<"blog">>, <<"Blog">>,
      <<"blogs">>, <<"my", "-", "post">>, <<"2024">>, <<"01">>, <<"team">>,
      <<"about">>, <<"a">> }

RECURSIVE JoinSegments(_)
\* "/" before each segment
JoinSegments(segments) ==
    IF segments = <<>> THEN <<>>
    ELSE <<"/">> \o Head(segments) \o JoinSegments(Tail(segments))

\* the URLs classified: a site, up to MaxSegments segments, with or without
\* a trailing slash
ClassifiedUrls ==
    { <<"https", ":", "/", "/", "a.com">> \o JoinSegments(segments) \o tail :
        segments \in SeqsUpTo(SegmentPool, MaxSegments),
        tail \in {<<>>, <<"/">>} }

NoResult == [url |-> <<>>, data_type |-> NoneStr, confidence |-> 0]

ClIdle ==
    /\ cl_url = <<>>
    /\ cl_result = NoResult
    /\ cl_pc = "idle"

ClInit ==
    /\ cl_url \in ClassifiedUrls
    /\ cl_result = NoResult
    /\ cl_pc = "start"

\* one call of classify_url
ClassifyCall ==
    /\ cl_pc = "start"
    /\ cl_result' = classify_url(cl_url)
    /\ cl_pc' = "done"
    /\ UNCHANGED cl_url

ClassifyNext ==
    \/ ClassifyCall /\ UNCHANGED notCl

\* ------------------------------------- scraping/parser/contact_parser.py
\* Person items in the JSON-LD of one page
MaxPeople == 3

\* a key the dict does not have
Missing == "<missing>"

\* the truth value of a dict value: None and "" are false
Truthy(v) == v \notin {Missing, NoneStr, ""}

\* dict.get(key, "")
GetOrEmpty(v) == IF v = Missing THEN "" ELSE v

\* str.lower() on the names and addresses of the pages
LowerText(s) ==
    CASE s = "A@x" -> "a@x"
      [] s = "X" -> "x"
      [] s = "Y" -> "y"
      [] s = "None" -> "none"
      [] OTHER -> s

\* name.split(" ", 1)
SplitName(name) == IF name = "X Y" THEN <<"X", "Y">> ELSE <<name>>

\* a Person item: its name ("" when it has none) and its email (None when
\* it has none)
JsonLdItems == [name : {"X Y", ""}, email : {NoneStr, "", "a@x", "A@x"}]

\* the page text: nothing; an address; an address twice, in two cases, and
\* a LinkedIn URL; a generic mailbox and an address
TextPool ==
    { [emails |-> <<>>, linkedins |-> <<>>],
      [emails |-> <<"a@x">>, linkedins |-> <<>>],
      [emails |-> <<"a@x", "A@x">>, linkedins |-> <<"linkedin.com/in/x">>],
      [emails |-> <<"info@x", "a@x">>, linkedins |-> <<>>] }

\* the cards of the first selector that has any
CardPool == { <<>>, <<"X Y">> }

\* contact_parser.py 15-28, 142: the addresses that begin with a prefix of
\* GENERIC_EMAILS
IsGeneric(email) == LowerText(email) \in {"info@x"}

Person(first_name, last_name, email, linkedin_url, source) ==
    [ first_name |-> first_name, last_name |-> last_name, email |-> email,
      linkedin_url |-> linkedin_url, source |-> source ]

PersonKeys == {"first_name", "last_name", "email", "linkedin_url", "source"}

\* contact_parser.py 51-73; job_title is carried like linkedin_url and left
\* out
from_json_ld(items) ==
    [ i \in 1..Len(items) |->
        LET name_parts == SplitName(items[i].name)
        IN  Person(name_parts[1],
                   IF Len(name_parts) > 1 THEN name_parts[2] ELSE NoneStr,
                   items[i].email, NoneStr, "json_ld") ]

\* contact_parser.py 75-134: a card has no email key
from_team_cards(cards) ==
    [ i \in 1..Len(cards) |->
        LET parts == SplitName(cards[i])
        IN  Person(parts[1],
                   IF Len(parts) > 1 THEN parts[2] ELSE NoneStr,
                   Missing, NoneStr, "team_page") ]

\* contact_parser.py 136-161
from_email_patterns(text) ==
    LET emails == SelectSeq(text.emails, LAMBDA e : ~IsGeneric(e))
    IN  [ i \in 1..Len(emails) |->
            Person(Missing, Missing, emails[i], Missing, "email_pattern") ]
        \o [ i \in 1..Len(text.linkedins) |->
            Person(Missing, Missing, Missing, text.linkedins[i],
                   "linkedin_pattern") ]

\* contact_parser.py 171: f"{first} {last}".strip().lower(), where None is
\* written "None"
NameOf(person) ==
    LET first == LowerText(GetOrEmpty(person.first_name))
        last == LowerText(GetOrEmpty(person.last_name))
    IN  IF first = "" THEN last
        ELSE IF last = "" THEN first
        ELSE first \o " " \o last

\* contact_parser.py 176-178, 181-183: a true value fills a key that is
\* missing or false in the record kept
Merge(kept, person) ==
    [ k \in PersonKeys |->
        IF Truthy(person[k]) /\ ~Truthy(kept[k]) THEN person[k] ELSE kept[k] ]

\* seen[key] of a dict held as a set of <<key, index>> pairs
SeenIndex(seen, key) == (CHOOSE e \in seen : e[1] = key)[2]

SeenKeys(seen) == { e[1] : e \in seen }

RECURSIVE DeduplicateLoop(_, _, _, _)
\* contact_parser.py 169-190: None has no lower(), so that a record whose
\* email is None raises AttributeError
DeduplicateLoop(people, result, seen_emails, seen_names) ==
    IF people = <<>> THEN [raised |-> FALSE, people |-> result]
    ELSE LET person == Head(people)
             email == LowerText(GetOrEmpty(person.email))
             name == NameOf(person)
         IN  IF person.email = NoneStr
             THEN [raised |-> TRUE, people |-> <<>>]
             ELSE IF email # "" /\ email \in SeenKeys(seen_emails)
             THEN DeduplicateLoop(Tail(people),
                          [result EXCEPT ![SeenIndex(seen_emails, email)] =
                               Merge(@, person)],
                          seen_emails, seen_names)
             ELSE IF name # "" /\ name \in SeenKeys(seen_names)
             THEN DeduplicateLoop(Tail(people),
                          [result EXCEPT ![SeenIndex(seen_names, name)] =
                               Merge(@, person)],
                          seen_emails, seen_names)
             ELSE DeduplicateLoop(Tail(people), Append(result, person),
                      IF email # ""
                      THEN seen_emails \cup {<<email, Len(result) + 1>>}
                      ELSE seen_emails,
                      IF name # ""
                      THEN seen_names \cup {<<name, Len(result) + 1>>}
                      ELSE seen_names)

\* contact_parser.py 163-192
deduplicate(people) == DeduplicateLoop(people, <<>>, {}, {})

\* contact_parser.py 35-49
extract_people(json_ld, cards, text) ==
    LET found == from_json_ld(json_ld) \o from_team_cards(cards)
        people == IF found = <<>> THEN from_email_patterns(text) ELSE found
    IN  deduplicate(people)

NoPeople == [raised |-> FALSE, people |-> <<>>]

CpIdle ==
    /\ cp_json_ld = <<>>
    /\ cp_cards = <<>>
    /\ cp_text = [emails |-> <<>>, linkedins |-> <<>>]
    /\ cp_ret = NoPeople
    /\ cp_pc = "idle"

CpInit ==
    /\ cp_json_ld \in SeqsUpTo(JsonLdItems, MaxPeople)
    /\ cp_cards \in CardPool
    /\ cp_text \in TextPool
    /\ cp_ret = NoPeople
    /\ cp_pc = "start"

\* one call of ContactParser.extract_people
ExtractPeopleCall ==
    /\ cp_pc = "start"
    /\ cp_ret' = extract_people(cp_json_ld, cp_cards, cp_text)
    /\ cp_pc' = "done"
    /\ UNCHANGED <<cp_json_ld, cp_cards, cp_text>>

ContactNext ==
    \/ ExtractPeopleCall /\ UNCHANGED notCp

\* ------------------------------------------- utils/url.py, normalize_url
\* the segments of the paths normalized: a word, a segment that is only
\* parameters, a word with parameters, an empty segment
NormSegments == { <<"a">>, <<";", "p">>, <<"A", ";", "p">>, <<>> }

\* the URLs normalized: scheme and host in either case, up to MaxSegments
\* segments, with or without a trailing slash and a fragment
NormUrls ==
    { scheme \o <<":", "/", "/">> \o host \o JoinSegments(segments)
        \o tail \o fragment :
        scheme \in {<<"http">>, <<"HTTP">>},
        host \in {<<"a.com">>, <<"A.com">>},
        segments \in SeqsUpTo(NormSegments, MaxSegments),
        tail \in {<<>>, <<"/">>},
        fragment \in {<<>>, <<"#", "f">>} }

NuIdle ==
    /\ nu_url = <<>>
    /\ nu_once = <<>>
    /\ nu_twice = <<>>
    /\ nu_pc = "idle"

NuInit ==
    /\ nu_url \in NormUrls
    /\ nu_once = <<>>
    /\ nu_twice = <<>>
    /\ nu_pc = "start"

\* normalize_url(u)
NormalizeOnce ==
    /\ nu_pc = "start"
    /\ nu_once' = normalize_url(nu_url)
    /\ nu_pc' = "once"
    /\ UNCHANGED <<nu_url, nu_twice>>

\* normalize_url(normalize_url(u))
NormalizeTwice ==
    /\ nu_pc = "once"
    /\ nu_twice' = normalize_url(nu_once)
    /\ nu_pc' = "twice"
    /\ UNCHANGED <<nu_url, nu_once>>

NormalizeNext ==
    \/ NormalizeOnce /\ UNCHANGED notNu
    \/ NormalizeTwice /\ UNCHANGED notNu

\* ------------------------- workers/blog_extractor.py, workers/tech_detector.py
\* URLs handed to one worker
MaxWorkerUrls == 2

WorkerUrlPool == {"u1", "u2"}

\* the URLs of one data type, without repetitions
WorkerUrlLists ==
    { s \in SeqsUpTo(WorkerUrlPool, MaxWorkerUrls) :
        \A i, j \in 1..Len(s) : i # j => s[i] # s[j] }

\* the workers whose execute loops over its URLs (blog_extractor.py 22-77;
\* article_parser, contact_finder, pricing_finder and resource_finder have
\* the same loop), and the one that takes urls[0] only
LoopWorkers == {"BlogExtractorWorker"}

WorkerClasses == LoopWorkers \cup {"TechDetectorWorker"}

WlIdle ==
    /\ wl_worker = NoneStr
    /\ wl_urls = <<>>
    /\ wl_i = 0
    /\ wl_fetched = <<>>
    /\ wl_outcome = <<>>
    /\ wl_records = <<>>
    /\ wl_total_cost = 0
    /\ wl_job_cost = 0
    /\ wl_pc = "idle"

\* jobs.py 40: total_cost = 0.0; the row is created with cost_usd 0
WlInit ==
    /\ wl_worker \in WorkerClasses
    /\ wl_urls \in WorkerUrlLists
    /\ wl_i = 0
    /\ wl_fetched = <<>>
    /\ wl_outcome = <<>>
    /\ wl_records = <<>>
    /\ wl_total_cost = 0
    /\ wl_job_cost = 0
    /\ wl_pc = "loop"

\* one URL taken: its fetch and what became of it
Taken(fetched, outcome) ==
    /\ wl_i' = wl_i + 1
    /\ wl_fetched' = Append(wl_fetched, fetched)
    /\ wl_outcome' = Append(wl_outcome, outcome)

\* the URL execute takes next
HasNextUrl ==
    /\ wl_pc = "loop"
    /\ wl_i < Len(wl_urls)
    /\ wl_worker \in LoopWorkers \/ wl_i = 0

\* after the URL: the loop goes on, tech_detector.py returns
AfterUrl == IF wl_worker \in LoopWorkers THEN "loop" ELSE "done"

\* blog_extractor.py 24-27, tech_detector.py 23-26: the test is on
\* fetch_result.blocked alone
UrlBlocked ==
    /\ HasNextUrl
    /\ \E t \in PageTransport :
         /\ create_fetcher(BASIC_HTTP, t).blocked
         /\ Taken(create_fetcher(BASIC_HTTP, t), "blocked")
    /\ wl_pc' = AfterUrl
    /\ UNCHANGED <<wl_worker, wl_urls, wl_records, wl_total_cost, wl_job_cost>>

\* blog_extractor.py 29-61, 76-77, tech_detector.py 28-50, 63-65: the
\* parser, the metadata model or export_results raises before the record is
\* stored; the except clause logs the error
UrlRaises ==
    /\ HasNextUrl
    /\ \E t \in PageTransport :
         /\ ~create_fetcher(BASIC_HTTP, t).blocked
         /\ Taken(create_fetcher(BASIC_HTTP, t), "error")
    /\ wl_pc' = AfterUrl
    /\ UNCHANGED <<wl_worker, wl_urls, wl_records, wl_total_cost, wl_job_cost>>

\* blog_extractor.py 23-24, 76-77: fetch_page itself raises
FetchRaises ==
    /\ HasNextUrl
    /\ Taken(Raised, "error")
    /\ wl_pc' = AfterUrl
    /\ UNCHANGED <<wl_worker, wl_urls, wl_records, wl_total_cost, wl_job_cost>>

\* blog_extractor.py 29-74, tech_detector.py 28-61: the record of the URL
\* is exported
UrlRecord ==
    /\ HasNextUrl
    /\ \E t \in PageTransport :
         /\ ~create_fetcher(BASIC_HTTP, t).blocked
         /\ Taken(create_fetcher(BASIC_HTTP, t), "record")
    /\ wl_records' = Append(wl_records, wl_urls[wl_i + 1])
    /\ wl_pc' = AfterUrl
    /\ UNCHANGED <<wl_worker, wl_urls, wl_total_cost, wl_job_cost>>

\* blog_extractor.py 15-17, 79-80: the list is exhausted
WorkerLoopReturn ==
    /\ wl_pc = "loop"
    /\ wl_i = Len(wl_urls)
    /\ wl_pc' = "done"
    /\ UNCHANGED <<wl_worker, wl_urls, wl_i, wl_fetched, wl_outcome,
                   wl_records, wl_total_cost, wl_job_cost>>

\* jobs.py 99-109: the worker has returned and no other is asked for;
\* update_job_status(COMPLETED, cost_usd=total_cost)
JobCompleted ==
    /\ wl_pc = "done"
    /\ wl_job_cost' = wl_total_cost
    /\ wl_pc' = "completed"
    /\ UNCHANGED <<wl_worker, wl_urls, wl_i, wl_fetched, wl_outcome,
                   wl_records, wl_total_cost>>

WorkerLoopNext ==
    \/ UrlBlocked /\ UNCHANGED notWl
    \/ UrlRaises /\ UNCHANGED notWl
    \/ FetchRaises /\ UNCHANGED notWl
    \/ UrlRecord /\ UNCHANGED notWl
    \/ WorkerLoopReturn /\ UNCHANGED notWl
    \/ JobCompleted /\ UNCHANGED notWl

\* ----- services/crawler.py _crawl_recursive, firecrawl.py _map_domain_http
\* a[href] anchors on one page
MaxHrefs == 2

\* ensure_scheme(domain)
BaseUrl == <<"https", ":", "/", "/", "a.com">>

\* the href attributes of the site's anchors: the home page, a page with a
\* trailing slash and with the host in capitals, another site, a document
SiteHrefs ==
    { <<"https", ":", "/", "/", "a.com", "/">>,
      <<"https", ":", "/", "/", "a.com", "/", "a", "/">>,
      <<"https", ":", "/", "/", "A.com", "/", "a">>,
      <<"https", ":", "/", "/", "b.com", "/", "a">>,
      <<"https", ":", "/", "/", "a.com", "/", "a", ".pdf">> }

\* what one fetch gives: a page with its anchors, a page without html, a
\* blocked result, an exception
FetchOutcomes ==
    [outcome : {"page"}, hrefs : SeqsUpTo(SiteHrefs, MaxHrefs)]
    \cup [outcome : {"no_html", "blocked", "exception"}, hrefs : {<<>>}]

BfsLimits == {1, 2, 3, 100}

\* CrawlerService(max_concurrent): one at a time, or the default
ConcurrencyArgs == {1, 10}

\* firecrawl.py 98: the pages of one round
FirecrawlBatch == 5

\* firecrawl.py 117: the frontier takes no link beyond this length
FrontierCap == 50

CrawlImpls == {"CrawlerService", "FirecrawlService"}

BfsIdle ==
    /\ bfs_impl = "idle"
    /\ bfs_limit = 0
    /\ bfs_max_concurrent = 0
    /\ bfs_discovered = {}
    /\ bfs_to_crawl = <<>>
    /\ bfs_crawled = {}
    /\ bfs_batch = <<>>
    /\ bfs_results = <<>>
    /\ bfs_fetched = <<>>
    /\ bfs_log = <<>>
    /\ bfs_ret = {}
    /\ bfs_pc = "idle"

\* crawler.py 53-61, firecrawl.py 79-83
BfsInit ==
    /\ bfs_impl \in CrawlImpls
    /\ bfs_limit \in BfsLimits
    /\ bfs_max_concurrent \in IF bfs_impl = "CrawlerService"
                               THEN ConcurrencyArgs ELSE {FirecrawlBatch}
    /\ bfs_discovered = IF bfs_impl = "CrawlerService" THEN {BaseUrl} ELSE {}
    /\ bfs_to_crawl = <<BaseUrl>>
    /\ bfs_crawled = {}
    /\ bfs_batch = <<>>
    /\ bfs_results = <<>>
    /\ bfs_fetched = <<>>
    /\ bfs_log = <<>>
    /\ bfs_ret = {}
    /\ bfs_pc = "while"

\* crawler.py 54, 83: netloc.lower().replace("www.", ""); no host of the
\* site begins with www.
DomainOf(url) == Lower(urlparse(url).netloc)

\* crawler.py 82-89 for one link, on discovered, to_crawl and crawled
AddLink_m(full_url, d) ==
    [d EXCEPT !.discovered = @ \cup {full_url},
              !.to_crawl = Append(@, full_url)]

AddLink(full_url, d) ==
    IF /\ DomainOf(full_url) = DomainOf(BaseUrl)
       /\ is_valid_scrape_url(full_url)
       /\ full_url \notin d.discovered
    THEN [d EXCEPT !.discovered = @ \cup {full_url},
                   !.to_crawl = IF full_url \notin d.crawled
                                   /\ full_url \notin Range(d.to_crawl)
                                THEN Append(@, full_url) ELSE @]
    ELSE d

RECURSIVE LinkLoop(_, _)
\* crawler.py 77-92: the anchors in document order, until the limit is
\* reached; href is absolute, so that normalize_url does not join it
LinkLoop(hrefs, d) ==
    IF hrefs = <<>> THEN d
    ELSE The({ IF Cardinality(next.discovered) >= bfs_limit THEN next
               ELSE LinkLoop(Tail(hrefs), next) :
               next \in {AddLink(normalize_url(Head(hrefs)), d)} })

\* firecrawl.py 156-158: scheme://netloc and the path, less one final slash
clean_url(parsed) ==
    The({ IF c[Len(c)] = "/" THEN Upto(c, Len(c) - 1) ELSE c :
          c \in {parsed.scheme \o <<":", "/", "/">> \o parsed.netloc
                 \o parsed.path} })

\* firecrawl.py 141-161: the links of a page that stay on the site
ExtractLinks(url, hrefs) ==
    { clean_url(parsed) :
        parsed \in { p \in { urlparse(urljoin(url, href)) :
                             href \in Range(hrefs) } :
                     Lower(p.netloc) = DomainOf(BaseUrl) } }

\* the URLs a crawl of the site can meet
SiteUrls ==
    {BaseUrl} \cup { normalize_url(h) : h \in SiteHrefs }
    \cup { clean_url(urlparse(h)) : h \in SiteHrefs }

\* firecrawl.py 114-118 for one link
FcAddLink(link, d) ==
    IF link \notin d.discovered
    THEN [d EXCEPT !.discovered = @ \cup {link},
                   !.to_crawl = IF link \notin d.crawled
                                   /\ Len(d.to_crawl) < FrontierCap
                                THEN Append(@, link) ELSE @]
    ELSE d

RECURSIVE FcLinkLoop(_, _)
\* firecrawl.py 113-118
FcLinkLoop(links, d) ==
    IF links = <<>> THEN d
    ELSE FcLinkLoop(Tail(links), FcAddLink(Head(links), d))

RECURSIVE PopUncrawled(_)
\* firecrawl.py 97-102: URLs are popped until the batch is full, one that
\* was crawled already dropped
PopUncrawled(d) ==
    IF d.to_crawl = <<>> \/ Len(d.batch) >= bfs_max_concurrent THEN d
    ELSE PopUncrawled(
             IF Head(d.to_crawl) \notin d.crawled
             THEN [to_crawl |-> Tail(d.to_crawl),
                   batch |-> Append(d.batch, Head(d.to_crawl)),
                   crawled |-> d.crawled \cup {Head(d.to_crawl)}]
             ELSE [d EXCEPT !.to_crawl = Tail(@)])

\* crawler.py 63-66: the loop test and the batch popped from the front
CrawlPopBatch ==
    /\ bfs_impl = "CrawlerService"
    /\ bfs_pc = "while"
    /\ bfs_to_crawl # <<>>
    /\ Cardinality(bfs_discovered) < bfs_limit
    /\ \E batch_size \in {IF bfs_max_concurrent < Len(bfs_to_crawl)
                          THEN bfs_max_concurrent ELSE Len(bfs_to_crawl)} :
         /\ bfs_batch' = SubSeq(bfs_to_crawl, 1, batch_size)
         /\ bfs_to_crawl' =
                SubSeq(bfs_to_crawl, batch_size + 1, Len(bfs_to_crawl))
    /\ bfs_results' = <<>>
    /\ bfs_pc' = "gather"
    /\ UNCHANGED <<bfs_impl, bfs_limit, bfs_max_concurrent, bfs_discovered,
                   bfs_crawled, bfs_fetched, bfs_log, bfs_ret>>

\* firecrawl.py 95-105: the loop test, the batch, and the break when every
\* URL popped was crawled before
FcPopBatch ==
    /\ bfs_impl = "FirecrawlService"
    /\ bfs_pc = "while"
    /\ bfs_to_crawl # <<>>
    /\ Cardinality(bfs_discovered) < bfs_limit
    /\ \E d \in {PopUncrawled([to_crawl |-> bfs_to_crawl, batch |-> <<>>,
                               crawled |-> bfs_crawled])} :
         /\ bfs_batch' = d.batch
         /\ bfs_to_crawl' = d.to_crawl
         /\ bfs_crawled' = d.crawled
         /\ bfs_pc' = IF d.batch = <<>> THEN "break" ELSE "gather"
    /\ bfs_results' = <<>>
    /\ UNCHANGED <<bfs_impl, bfs_limit, bfs_max_concurrent, bfs_discovered,
                   bfs_fetched, bfs_log, bfs_ret>>

\* crawler.py 67-68, firecrawl.py 107-108: one task of the gather, the
\* results kept in the order of the batch; what the fetch gave is drawn
\* when the result is read
CrawlFetch ==
    /\ bfs_pc = "gather"
    /\ bfs_batch # <<>>
    /\ bfs_results' = Append(bfs_results, Head(bfs_batch))
    /\ bfs_fetched' = Append(bfs_fetched, Head(bfs_batch))
    /\ bfs_batch' = Tail(bfs_batch)
    /\ UNCHANGED <<bfs_impl, bfs_limit, bfs_max_concurrent, bfs_discovered,
                   bfs_to_crawl, bfs_crawled, bfs_log, bfs_ret, bfs_pc>>

\* crawler.py 70-72: a result that is an exception, blocked or without
\* html; firecrawl.py 111-112, 133-139, 161-163: an exception, a status of
\* 400 or more, or a page that is not html gives no link
CrawlSkipResult ==
    /\ bfs_pc = "gather"
    /\ bfs_batch = <<>>
    /\ bfs_results # <<>>
    /\ \E f \in FetchOutcomes :
         /\ f.outcome # "page"
         /\ bfs_log' = Append(bfs_log, [url |-> Head(bfs_results),
                                        outcome |-> f.outcome,
                                        added |-> {}])
    /\ bfs_results' = Tail(bfs_results)
    /\ UNCHANGED <<bfs_impl, bfs_limit, bfs_max_concurrent, bfs_discovered,
                   bfs_to_crawl, bfs_crawled, bfs_batch, bfs_fetched,
                   bfs_ret, bfs_pc>>

\* crawler.py 74-92: a page and its anchors
CrawlProcessResult ==
    /\ bfs_impl = "CrawlerService"
    /\ bfs_pc = "gather"
    /\ bfs_batch = <<>>
    /\ bfs_results # <<>>
    /\ \E f \in FetchOutcomes :
         /\ f.outcome = "page"
         /\ \E d \in {LinkLoop(f.hrefs,
                               [discovered |-> bfs_discovered,
                                to_crawl |-> bfs_to_crawl,
                                crawled |-> bfs_crawled
                                            \cup {Head(bfs_results)}])} :
              /\ bfs_discovered' = d.discovered
              /\ bfs_to_crawl' = d.to_crawl
              /\ bfs_crawled' = d.crawled
              /\ bfs_log' = Append(bfs_log,
                                   [url |-> Head(bfs_results),
                                    outcome |-> "page",
                                    added |-> d.discovered \ bfs_discovered])
    /\ bfs_results' = Tail(bfs_results)
    /\ UNCHANGED <<bfs_impl, bfs_limit, bfs_max_concurrent, bfs_batch,
                   bfs_fetched, bfs_ret, bfs_pc>>

\* firecrawl.py 110-118: the links of a page, in the order list(set(links))
\* gives them
FcProcessResult ==
    /\ bfs_impl = "FirecrawlService"
    /\ bfs_pc = "gather"
    /\ bfs_batch = <<>>
    /\ bfs_results # <<>>
    /\ \E f \in FetchOutcomes :
       \E found \in {ExtractLinks(Head(bfs_results), f.hrefs)} :
       \E links \in SeqsUpTo(found, MaxHrefs) :
       \E d \in {FcLinkLoop(links, [discovered |-> bfs_discovered,
                                     to_crawl |-> bfs_to_crawl,
                                     crawled |-> bfs_crawled])} :
         /\ f.outcome = "page"
         /\ Range(links) = found
         /\ Len(links) = Cardinality(found)
         /\ bfs_discovered' = d.discovered
         /\ bfs_to_crawl' = d.to_crawl
         /\ bfs_log' = Append(bfs_log,
                              [url |-> Head(bfs_results),
                               outcome |-> "page",
                               added |-> d.discovered \ bfs_discovered])
    /\ bfs_results' = Tail(bfs_results)
    /\ UNCHANGED <<bfs_impl, bfs_limit, bfs_max_concurrent, bfs_crawled,
                   bfs_batch, bfs_fetched, bfs_ret, bfs_pc>>

\* crawler.py 94, firecrawl.py 121: the sleep that ends a round
CrawlSleep ==
    /\ bfs_pc = "gather"
    /\ bfs_batch = <<>>
    /\ bfs_results = <<>>
    /\ bfs_pc' = "while"
    /\ UNCHANGED <<bfs_impl, bfs_limit, bfs_max_concurrent, bfs_discovered,
                   bfs_to_crawl, bfs_crawled, bfs_batch, bfs_results,
                   bfs_fetched, bfs_log, bfs_ret>>

\* crawler.py 63, 96, firecrawl.py 95, 123: the loop is left and
\* list(discovered)[:limit] returned
CrawlReturn ==
    /\ \/ /\ bfs_pc = "while"
          /\ bfs_to_crawl = <<>> \/ Cardinality(bfs_discovered) >= bfs_limit
       \/ bfs_pc = "break"
    /\ bfs_ret' \in FirstOfSet(bfs_discovered, bfs_limit)
    /\ bfs_pc' = "done"
    /\ UNCHANGED <<bfs_impl, bfs_limit, bfs_max_concurrent, bfs_discovered,
                   bfs_to_crawl, bfs_crawled, bfs_batch, bfs_results,
                   bfs_fetched, bfs_log>>

BfsNext ==
    \/ CrawlPopBatch /\ UNCHANGED notBfs
    \/ FcPopBatch /\ UNCHANGED notBfs
    \/ CrawlFetch /\ UNCHANGED notBfs
    \/ CrawlSkipResult /\ UNCHANGED notBfs
    \/ CrawlProcessResult /\ UNCHANGED notBfs
    \/ FcProcessResult /\ UNCHANGED notBfs
    \/ CrawlSleep /\ UNCHANGED notBfs
    \/ CrawlReturn /\ UNCHANGED notBfs

\* ---------------------------------------------------------- utils/retry.py
\* the largest max_retries handed to retry_async
MaxRetries == 3

\* the exceptions fn raises
ErrorTypes == {"TimeoutError", "ValueError"}

\* retry_on: the default, or one type
RetryOnArgs == {{"Exception"}, {"TimeoutError"}}

\* base_delay and max_delay, in seconds
BaseDelays == {1, 2}
MaxDelays == {3, 30}

\* except retry_on as e: whether the clause catches an error of the type
Catches(retry_on, error) == "Exception" \in retry_on \/ error \in retry_on

RECURSIVE Pow2(_)
\* 2**attempt
Pow2(n) == IF n = 0 THEN 1 ELSE 2 * Pow2(n - 1)

\* retry.py 29
BackoffDelay_m(attempt) == rt_base_delay * Pow2(attempt)

BackoffDelay(attempt) ==
    IF rt_base_delay * Pow2(attempt) < rt_max_delay
    THEN rt_base_delay * Pow2(attempt) ELSE rt_max_delay

RtIdle ==
    /\ rt_max_retries = 0
    /\ rt_base_delay = 0
    /\ rt_max_delay = 0
    /\ rt_retry_on = {}
    /\ rt_attempt = 0
    /\ rt_trace = <<>>
    /\ rt_pc = "idle"

\* retry.py 20-22
RtInit ==
    /\ rt_max_retries \in 0..MaxRetries
    /\ rt_base_delay \in BaseDelays
    /\ rt_max_delay \in MaxDelays
    /\ rt_retry_on \in RetryOnArgs
    /\ rt_attempt = 0
    /\ rt_trace = <<>>
    /\ rt_pc = "try"

\* retry.py 24: fn returns, and retry_async with it
RetryReturns ==
    /\ rt_pc = "try"
    /\ rt_trace' = rt_trace \o <<[kind |-> "call", attempt |-> rt_attempt,
                                  error |-> NoneStr, delay |-> 0],
                                 [kind |-> "return", attempt |-> rt_attempt,
                                  error |-> NoneStr, delay |-> 0]>>
    /\ rt_pc' = "done"
    /\ UNCHANGED <<rt_max_retries, rt_base_delay, rt_max_delay, rt_retry_on,
                   rt_attempt>>

\* retry.py 24-25: fn raises an error the except clause does not catch
RetryPropagates ==
    /\ rt_pc = "try"
    /\ \E e \in ErrorTypes :
         /\ ~Catches(rt_retry_on, e)
         /\ rt_trace' = rt_trace \o <<[kind |-> "call", attempt |-> rt_attempt,
                                       error |-> e, delay |-> 0],
                                      [kind |-> "raise", attempt |-> rt_attempt,
                                       error |-> e, delay |-> 0]>>
    /\ rt_pc' = "done"
    /\ UNCHANGED <<rt_max_retries, rt_base_delay, rt_max_delay, rt_retry_on,
                   rt_attempt>>

\* retry.py 24-37: fn raises an error that is caught, before the last
\* attempt: the sleep, and the next turn of the loop
RetrySleeps ==
    /\ rt_pc = "try"
    /\ rt_attempt # rt_max_retries
    /\ \E e \in ErrorTypes :
         /\ Catches(rt_retry_on, e)
         /\ rt_trace' = rt_trace \o <<[kind |-> "call", attempt |-> rt_attempt,
                                       error |-> e, delay |-> 0],
                                      [kind |-> "sleep", attempt |-> rt_attempt,
                                       error |-> NoneStr,
                                       delay |-> BackoffDelay(rt_attempt)]>>
    /\ rt_attempt' = rt_attempt + 1
    /\ UNCHANGED <<rt_max_retries, rt_base_delay, rt_max_delay, rt_retry_on,
                   rt_pc>>

\* retry.py 24-28, 39: fn raises an error that is caught, at the last
\* attempt: the break, and last_error raised
RetryGivesUp ==
    /\ rt_pc = "try"
    /\ rt_attempt = rt_max_retries
    /\ \E e \in ErrorTypes :
         /\ Catches(rt_retry_on, e)
         /\ rt_trace' = rt_trace \o <<[kind |-> "call", attempt |-> rt_attempt,
                                       error |-> e, delay |-> 0],
                                      [kind |-> "raise", attempt |-> rt_attempt,
                                       error |-> e, delay |-> 0]>>
    /\ rt_pc' = "done"
    /\ UNCHANGED <<rt_max_retries, rt_base_delay, rt_max_delay, rt_retry_on,
                   rt_attempt>>

RetryNext ==
    \/ RetryReturns /\ UNCHANGED notRt
    \/ RetryPropagates /\ UNCHANGED notRt
    \/ RetrySleeps /\ UNCHANGED notRt
    \/ RetryGivesUp /\ UNCHANGED notRt

\* ------ workers/scheduled_scraper.py, executions of the tick that overlap
\* executions of check_scheduled_scrapes within one hour
MaxExecutions == 2

Executions == 1..MaxExecutions

\* the rows of a domain when the hour starts: an active row due since
\* yesterday, an active row due tomorrow, an inactive row due since yesterday
OvInitRows(d) ==
    { TdRow(d, TRUE, "daily", 100, DefaultDataTypes, NoneInt, StartDay - 1),
      TdRow(d, TRUE, "daily", 100, DefaultDataTypes, NoneInt, StartDay + 1),
      TdRow(d, FALSE, "monthly", 100, DefaultDataTypes, NoneInt,
            StartDay - 1) }

\* the locals of an execution that has not started
NotStarted == [pc |-> "idle", due |-> {}, cur |-> NoneStr, job |-> 0]

OvIdle ==
    /\ ov_rows = <<>>
    /\ ov_jobs = <<>>
    /\ ov_queue = <<>>
    /\ ov_ex = <<>>

OvInit ==
    /\ ov_rows \in [TdDomains -> UNION {OvInitRows(d) : d \in TdDomains}]
    /\ \A d \in TdDomains : ov_rows[d] \in OvInitRows(d)
    /\ ov_jobs = <<>>
    /\ ov_queue = <<>>
    /\ ov_ex = [p \in Executions |-> NotStarted]

\* scheduled_scraper.py 15-21 with tracked_domains.py 91-96: the SELECT of
\* the rows that are active and due; the clock stays at StartDay
OvSelect(p) ==
    /\ ov_ex[p].pc = "idle"
    /\ ov_ex' = [ov_ex EXCEPT ![p] =
                    [pc |-> "loop",
                     due |-> { d \in TdDomains :
                                 /\ ov_rows[d].exists
                                 /\ ov_rows[d].is_active
                                 /\ ov_rows[d].next_scrape_at <= StartDay },
                     cur |-> NoneStr, job |-> 0]]
    /\ UNCHANGED <<ov_rows, ov_jobs, ov_queue>>

\* scheduled_scraper.py 23-31: the next row of due and create_job
OvCreate(p) ==
    /\ ov_ex[p].pc = "loop"
    /\ \E d \in ov_ex[p].due :
         /\ ov_jobs' = Append(ov_jobs, [domain |-> d, status |-> PENDING,
                                        execution |-> p])
         /\ ov_ex' = [ov_ex EXCEPT ![p] =
                         [pc |-> "enqueue", due |-> ov_ex[p].due \ {d},
                          cur |-> d, job |-> Len(ov_jobs) + 1]]
    /\ UNCHANGED <<ov_rows, ov_queue>>

\* scheduled_scraper.py 34-43
OvEnqueue(p) ==
    /\ ov_ex[p].pc = "enqueue"
    /\ ov_queue' = Append(ov_queue, [function |-> "process_scrape_job",
                                     job_id |-> ov_ex[p].job,
                                     domain |-> ov_ex[p].cur])
    /\ ov_ex' = [ov_ex EXCEPT ![p].pc = "mark"]
    /\ UNCHANGED <<ov_rows, ov_jobs>>

\* scheduled_scraper.py 45 with tracked_domains.py 99-117: mark_scraped,
\* and back to the loop
OvMark(p) ==
    /\ ov_ex[p].pc = "mark"
    /\ ov_rows' = [ov_rows EXCEPT
                     ![ov_ex[p].cur].last_auto_scraped_at = StartDay,
                     ![ov_ex[p].cur].next_scrape_at =
                         StartDay + delta_of(ov_rows[ov_ex[p].cur].scrape_frequency)]
    /\ ov_ex' = [ov_ex EXCEPT ![p].pc = "loop"]
    /\ UNCHANGED <<ov_jobs, ov_queue>>

\* scheduled_scraper.py 19 and the end of the for loop
OvReturn(p) ==
    /\ ov_ex[p].pc = "loop"
    /\ ov_ex[p].due = {}
    /\ ov_ex' = [ov_ex EXCEPT ![p].pc = "done"]
    /\ UNCHANGED <<ov_rows, ov_jobs, ov_queue>>

\* the executions interleaved at their awaits, no statement raising
OverlapNext ==
    \/ (\E p \in Executions : OvSelect(p)) /\ UNCHANGED notOv
    \/ (\E p \in Executions : OvCreate(p)) /\ UNCHANGED notOv
    \/ (\E p \in Executions : OvEnqueue(p)) /\ UNCHANGED notOv
    \/ (\E p \in Executions : OvMark(p)) /\ UNCHANGED notOv
    \/ (\E p \in Executions : OvReturn(p)) /\ UNCHANGED notOv

\* -------------------------------------------------------- specifications
\* Each specification runs one part of the program and leaves the variables
\* of the other parts at rest.

\* every part outside the set running is at rest
IdleExcept(running) ==
    /\ IF "job" \in running THEN TRUE ELSE JobIdle
    /\ IF "esc" \in running THEN TRUE ELSE EscIdle
    /\ IF "ft" \in running THEN TRUE ELSE FtIdle
    /\ IF "pg" \in running THEN TRUE ELSE PgIdle
    /\ IF "md" \in running THEN TRUE ELSE MdIdle
    /\ IF "rl" \in running THEN TRUE ELSE RlIdle
    /\ IF "td" \in running THEN TRUE ELSE TdIdle
    /\ IF "ts" \in running THEN TRUE ELSE TsIdle
    /\ IF "ex" \in running THEN TRUE ELSE ExIdle
    /\ IF "dj" \in running THEN TRUE ELSE DjIdle
    /\ IF "wk" \in running THEN TRUE ELSE WkIdle
    /\ IF "cr" \in running THEN TRUE ELSE CrIdle
    /\ IF "pl" \in running THEN TRUE ELSE PlIdle
    /\ IF "cl" \in running THEN TRUE ELSE ClIdle
    /\ IF "cp" \in running THEN TRUE ELSE CpIdle
    /\ IF "nu" \in running THEN TRUE ELSE NuIdle
    /\ IF "wl" \in running THEN TRUE ELSE WlIdle
    /\ IF "bfs" \in running THEN TRUE ELSE BfsIdle
    /\ IF "rt" \in running THEN TRUE ELSE RtIdle
    /\ IF "ov" \in running THEN TRUE ELSE OvIdle

\* one run of process_scrape_job
Init == JobInit /\ IdleExcept({"job"})

Spec == Init /\ [][Next]_vars

\* the EscalationService functions on every bounded input
EscInit ==
    /\ IdleExcept({"esc"})
    /\ esc_meta \in MetaRows
    /\ esc_result \in FetchResults
    /\ esc_initial = NoneStr
    /\ esc_escalate = FALSE
    /\ esc_next = NoneStr
    /\ esc_called = {}

EscSpec == EscInit /\ [][EscNext]_vars

\* one call of fetch on one fetcher
FetcherInit == FtInit /\ IdleExcept({"ft"})

FetcherSpec == FetcherInit /\ [][FetcherNext]_vars

\* the fetching of one page through each entry point
PageInit == PgInit /\ IdleExcept({"pg"})

PageSpec == PageInit /\ [][PageNext]_vars

\* record_result calls on one domain, their statements interleaved
MetaInit == MdInit /\ IdleExcept({"md"})

MetaSpec == MetaInit /\ [][MetaNext]_vars

\* sequential wait calls and resets on one RateLimiter
RateInit == RlInit /\ IdleExcept({"rl"})

RateSpec == RateInit /\ [][RateNext]_vars

\* ... called by coroutines that run in parallel
ParallelRateSpec == RateInit /\ [][ParallelRateNext]_vars

\* the scheduler and the tracked-domain API on one table
TrackInit == TdInit /\ IdleExcept({"td"})

\* ... with the table at rest while a tick runs
TickSpec == TrackInit /\ [][TickNext]_vars

\* ... with any interleaving
TrackSpec == TrackInit /\ [][TrackNext]_vars

\* scheduler ticks and webhook triggers
IntakeSpec == TrackInit /\ [][IntakeNext]_vars

\* the two scheduler functions, each on its table
SchedInit == TdInit /\ TsInit /\ IdleExcept({"td", "ts"})

SchedSpec == SchedInit /\ [][SchedNext]_vars

\* extract_unique_domains on every bounded input
ExtractInit == ExInit /\ IdleExcept({"ex"})

ExtractSpec == ExtractInit /\ [][ExtractNext]_vars

\* one run of process_discovery_job
DiscoveryInit == DjInit /\ IdleExcept({"dj"})

DiscoverySpec == DiscoveryInit /\ [][DiscoveryNext]_vars

\* a discovery run and the child scrape jobs it enqueued
ChildrenSpec == DiscoveryInit /\ [][ChildrenNext]_vars

\* the arq worker with its queue and its clock
WorkerInit == WkInit /\ IdleExcept({"wk"})

WorkerSpec == WorkerInit /\ [][WorkerNext]_vars

\* one call of CrawlerService.map_domain
CrawlerInit == CrInit /\ IdleExcept({"cr"})

CrawlerSpec == CrawlerInit /\ [][CrawlerNext]_vars


\* the domain mapper's validation, then the resource finder on one page
PipelineInit == PlInit /\ IdleExcept({"pl"})

PipelineSpec == PipelineInit /\ [][PipelineNext]_vars

\* classify_url on one URL
ClassifyInit == ClInit /\ IdleExcept({"cl"})

ClassifySpec == ClassifyInit /\ [][ClassifyNext]_vars

\* ContactParser.extract_people on one page
ContactInit == CpInit /\ IdleExcept({"cp"})

ContactSpec == ContactInit /\ [][ContactNext]_vars

\* normalize_url applied twice to one URL
NormalizeInit == NuInit /\ IdleExcept({"nu"})

NormalizeSpec == NormalizeInit /\ [][NormalizeNext]_vars

\* one execute of a data-type worker
WorkerLoopInit == WlInit /\ IdleExcept({"wl"})

WorkerLoopSpec == WorkerLoopInit /\ [][WorkerLoopNext]_vars

\* one breadth-first crawl
BfsSpecInit == BfsInit /\ IdleExcept({"bfs"})

BfsSpec == BfsSpecInit /\ [][BfsNext]_vars

\* one call of retry_async
RetryInit == RtInit /\ IdleExcept({"rt"})

RetrySpec == RetryInit /\ [][RetryNext]_vars

\* executions of check_scheduled_scrapes that may overlap
OverlapInit == OvInit /\ IdleExcept({"ov"})

OverlapSpec == OverlapInit /\ [][OverlapNext]_vars
\* ------------------------------------------------------------ properties
Terminal == {COMPLETED, FAILED}

\* dtypes of the worker.execute calls made so far, in call order
StartedTypes ==
    LET starts == SelectSeq(trace, LAMBDA e : e.kind = "start")
    IN  [k \in 1..Len(starts) |-> starts[k].dtype]

\* the requested dtypes that have a worker, in request order
RunnableTypes == SelectSeq(data_types, LAMBDA t : t \in KnownTypes)

\* the worker exceptions so far, as the entries errors[] should hold
RaisedEntries ==
    LET ends == SelectSeq(trace, LAMBDA e : e.kind = "end" /\ e.exc # NoneStr)
    IN  [k \in 1..Len(ends) |-> <<ends[k].dtype, ends[k].exc>>]

RECURSIVE Flatten(_)
Flatten(ss) == IF ss = <<>> THEN <<>> ELSE Head(ss) \o Flatten(Tail(ss))

\* article_urls carried by the blog_url records of an execute return
ArticleUrlsOf(records) ==
    Flatten([k \in 1..Len(records) |-> records[k].article_urls])

\* positions before k at which a BlogExtractor run returned
BlogEndsBefore(k) ==
    {j \in 1..(k - 1) : trace[j].kind = "end" /\ trace[j].dtype = "blog_url"}

\* article URLs the job's BlogExtractor has extracted before position k
ExtractedBefore(k) ==
    IF BlogEndsBefore(k) = {} THEN <<>>
    ELSE ArticleUrlsOf(trace[CHOOSE j \in BlogEndsBefore(k) :
                                 \A i \in BlogEndsBefore(k) : i <= j].records)

\* C1: once the persisted status is completed or failed, no later
\* update_job_status call changes the job row.
C1_TerminalRowFrozen ==
    [][job.status \in Terminal => job' = job]_vars

\* C2: in every reachable state completed_at is non-null if and only if
\* status is completed or failed.
C2_CompletedAtIffTerminal ==
    (job.completed_at # NoneInt) <=> (job.status \in Terminal)

\* C3: when the per-job timeout expires while process_scrape_job runs, the
\* persisted status is FAILED with an error message.
C3_TimeoutMarksFailed ==
    pc = "cancelled" => job.status = FAILED /\ job.error_message # NoneStr

C5_WebhookKeepsCompleted ==
    [][(pc \in {"lookup", "export"} /\ job.status = COMPLETED)
          => job'.status = COMPLETED]_vars

\* C6: the workers of a job run one at a time (each execute call returns
\* before the next is made) and in exactly the order of data_types.
C6_SequentialInOrder ==
    /\ \A k \in 1..Len(trace) :
          IF k % 2 = 1 THEN trace[k].kind = "start"
          ELSE trace[k].kind = "end" /\ trace[k].dtype = trace[k - 1].dtype
    /\ Len(StartedTypes) <= Len(RunnableTypes)
    /\ \A k \in 1..Len(StartedTypes) : StartedTypes[k] = RunnableTypes[k]
    /\ pc \in {"lookup", "export", "returned"} => StartedTypes = RunnableTypes

\* C6 witness: a job whose two different workers both ran to the end.
C6_Witness ==
    /\ pc = "returned"
    /\ Len(trace) = 4
    /\ trace[1].dtype # trace[3].dtype

\* C7: whenever ArticleParser starts, a BlogExtractor run of the same job
\* has completed before.
C7_BlogBeforeArticle ==
    \A k \in 1..Len(trace) :
        (trace[k].kind = "start" /\ trace[k].dtype = "article")
            => BlogEndsBefore(k) # {}

\* C8: the URL list handed to ArticleParser is the list of article URLs the
\* job's BlogExtractor extracted (the article_urls of its blog_url records).
C8_ArticleInputIsExtracted ==
    \A k \in 1..Len(trace) :
        (trace[k].kind = "start" /\ trace[k].dtype = "article")
            => trace[k].urls = ExtractedBefore(k)

\* the chain of section 4.3, by position
TierRank(tier) ==
    IF tier = "basic_http" THEN 1
    ELSE IF tier = "headless_browser" THEN 2
    ELSE IF tier = "headless_proxy" THEN 3
    ELSE 0

\* C9: should_escalate(r) is true exactly when r is blocked, or
\* captcha-flagged, or has status 403/429/503, or status 200 with a body
\* shorter than 200; get_next_tier maps basic_http to headless_browser and
\* headless_browser to headless_proxy (a strictly later tier) and returns
\* None at headless_proxy.
C9_EscalationRule ==
    /\ "should_escalate" \in esc_called =>
          esc_escalate =
              ( \/ esc_result.blocked
                \/ esc_result.captcha_detected
                \/ esc_result.status_code \in {403, 429, 503}
                \/ (esc_result.status_code = 200 /\ esc_result.html_len < 200) )
    /\ "get_next_tier" \in esc_called =>
          /\ esc_result.tier_used = "basic_http" => esc_next = "headless_browser"
          /\ esc_result.tier_used = "headless_browser" => esc_next = "headless_proxy"
          /\ esc_result.tier_used = "headless_proxy" => esc_next = NoneStr
          /\ esc_next # NoneStr => TierRank(esc_next) > TierRank(esc_result.tier_used)

\* C9 witness: a captcha page answered 200 with a long body at tier 2 is
\* escalatable and the next tier is tier 3.
C9_Witness ==
    /\ {"should_escalate", "get_next_tier"} \subseteq esc_called
    /\ esc_result.captcha_detected
    /\ ~esc_result.blocked
    /\ esc_result.status_code = 200
    /\ esc_result.html_len = 500
    /\ esc_result.tier_used = "headless_browser"
    /\ esc_escalate
    /\ esc_next = "headless_proxy"

\* C10: decide_initial_tier returns the stored last_successful_strategy when
\* it is one of the three tier names, and basic_http in every other case.
C10_InitialTier ==
    "decide_initial_tier" \in esc_called =>
        esc_initial =
            IF /\ esc_meta # <<>>
               /\ esc_meta[1].last_successful_strategy \in
                      {"basic_http", "headless_browser", "headless_proxy"}
            THEN esc_meta[1].last_successful_strategy
            ELSE "basic_http"

\* C10 witness: a domain whose stored strategy is headless_proxy starts
\* there.
C10_Witness ==
    /\ "decide_initial_tier" \in esc_called
    /\ esc_meta # <<>>
    /\ esc_meta[1].last_successful_strategy = "headless_proxy"
    /\ esc_initial = "headless_proxy"

\* C16: fetch never raises: every failure of the transport comes back as a
\* FetchResult with status_code 0, empty html and blocked = true, carrying
\* the tier and the fixed cost of the fetcher
C16_FailureIsStatusZero ==
    (ft_done /\ ft_transport.kind \in TransportFailures) =>
        /\ ~ft_out.raised
        /\ ft_out.status_code = 0
        /\ ft_out.html_len = 0
        /\ ft_out.blocked
        /\ ft_out.tier_used \in Tiers
        /\ ft_out.cost_usd = TIER_COSTS[ft_out.tier_used]

\* C17: blocked is true exactly when the status is 403, 429 or 503, or the
\* status is 200 and the body is shorter than 200, or the fetch failed
C17_BlockedExactly ==
    (ft_done /\ ~ft_out.raised) =>
        ( ft_out.blocked <=>
            \/ ft_out.status_code \in {403, 429, 503}
            \/ ft_out.status_code = 200 /\ ft_out.html_len < 200
            \/ ft_transport.kind \in TransportFailures )

\* the last FetchResult obtained for the page
LastFetch == pg_fetches[Len(pg_fetches)]

\* C11: when the fetching of a page is over, the last result is not
\* escalatable or tier 3 has been tried, and every result before the last
\* was escalatable and was followed by a fetch with the next tier
C11_EscalatesToCap ==
    pg_pc = "done" =>
        /\ ~should_escalate(LastFetch) \/ LastFetch.tier_used = HEADLESS_PROXY
        /\ \A k \in 1..(Len(pg_fetches) - 1) :
             /\ should_escalate(pg_fetches[k])
             /\ pg_fetches[k + 1].tier_used
                  = get_next_tier(pg_fetches[k].tier_used)

\* C12: when the fetching of a page is over, record_result has been called
\* with the last result, success = true if that result is not escalatable
\* and success = false otherwise
C12_ResultRecorded ==
    pg_pc = "done" =>
        \E k \in 1..Len(pg_records) :
            /\ pg_records[k].result = LastFetch
            /\ pg_records[k].success = ~should_escalate(LastFetch)

\* last_successful_strategy and block_count of the domain; a domain with no
\* row has no strategy and no blocks
StrategyOf(rows) ==
    IF rows = <<>> THEN NoneStr ELSE rows[1].last_successful_strategy

BlocksOf(rows) == IF rows = <<>> THEN 0 ELSE rows[1].block_count

\* the call whose upsert the step applies
Applied == md_log'[Len(md_log')]

\* C13: a record_result with success = true on an unblocked result stores
\* the result's tier as last_successful_strategy and leaves block_count
\* unchanged; a blocked result recorded with success = false adds exactly 1
\* to block_count and leaves last_successful_strategy unchanged; a blocked
\* tier-1 result followed by a successful tier-2 result ends with
\* last_successful_strategy = headless_browser and block_count one higher.
\* The two effects are independent: success alone decides the strategy,
\* blocked alone decides the increment.
C13_RecordEffects ==
    [][ Len(md_log') = Len(md_log) + 1 =>
          /\ Applied.success => StrategyOf(md_row') = Applied.tier
          /\ ~Applied.success => StrategyOf(md_row') = StrategyOf(md_row)
          /\ Applied.blocked => BlocksOf(md_row') = BlocksOf(md_row) + 1
          /\ ~Applied.blocked => BlocksOf(md_row') = BlocksOf(md_row)
          /\ ( /\ Len(md_log) = 1
               /\ md_log[1].tier = BASIC_HTTP
               /\ md_log[1].blocked /\ ~md_log[1].success
               /\ Applied.tier = HEADLESS_BROWSER
               /\ ~Applied.blocked /\ Applied.success )
             => /\ StrategyOf(md_row') = HEADLESS_BROWSER
                /\ BlocksOf(md_row') = BlocksOf(md_first) + 1 ]_vars

\* a blocked tier-1 result was recorded, then a successful tier-2 result, on
\* a domain that had another strategy and blocks before
C13_Witness ==
    /\ Len(md_log) = 2
    /\ md_log[1].tier = BASIC_HTTP
    /\ md_log[1].blocked /\ ~md_log[1].success
    /\ md_log[2].tier = HEADLESS_BROWSER
    /\ ~md_log[2].blocked /\ md_log[2].success
    /\ md_first # <<>>
    /\ BlocksOf(md_first) = 2
    /\ BlocksOf(md_row) = 3
    /\ StrategyOf(md_row) = HEADLESS_BROWSER

\* C14: whatever the order of the calls and of their statements, no step
\* lowers block_count or last_scraped_at of a domain's row
C14_NeverDecreases ==
    [][ (md_row # <<>> /\ md_row' # <<>>) =>
          /\ md_row'[1].block_count >= md_row[1].block_count
          /\ md_row'[1].last_scraped_at >= md_row[1].last_scraped_at ]_vars

\* tier of the last successful call of a log, or s when there is none
RECURSIVE LastSuccessTier(_, _)
LastSuccessTier(log, s) ==
    IF log = <<>> THEN s
    ELSE IF log[Len(log)].success THEN log[Len(log)].tier
    ELSE LastSuccessTier(SubSeq(log, 1, Len(log) - 1), s)

\* C15: when concurrent record_result calls on one domain have all been
\* applied, block_count is the initial value plus the number of calls with a
\* blocked result, and last_successful_strategy is the tier of the successful
\* call applied last (the initial strategy when no call was successful)
C15_ConcurrentRecords ==
    (\A i \in CallIds : md_calls[i].phase = "applied") =>
        /\ BlocksOf(md_row)
             = BlocksOf(md_first)
               + Cardinality({i \in CallIds : md_calls[i].blocked})
        /\ StrategyOf(md_row) = LastSuccessTier(md_log, StrategyOf(md_first))

\* two calls overlapped: the one whose statement started later was applied
\* first; both were successful with different tiers and one was blocked
C15_Witness ==
    /\ \A i \in CallIds : md_calls[i].phase = "applied"
    /\ md_log[1].ts > md_log[2].ts
    /\ md_log[1].success /\ md_log[2].success
    /\ md_log[1].tier # md_log[2].tier
    /\ md_log[1].blocked /\ ~md_log[2].blocked
    /\ BlocksOf(md_first) = 2
    /\ StrategyOf(md_row) = md_log[2].tier

\* j and k are consecutive wait calls of one domain with no reset between
ConsecutiveWaits(j, k) ==
    /\ j < k
    /\ rl_log[j].kind = "wait" /\ rl_log[k].kind = "wait"
    /\ rl_log[j].domain = rl_log[k].domain
    /\ \A i \in (j + 1)..(k - 1) : rl_log[i].domain # rl_log[j].domain

\* C18: for sequential calls of wait(d, m), consecutive returns for a domain
\* are at least m apart (at least the default delay when m is None), and the
\* first call for a domain, or the first after a reset, returns at the time
\* it was called
C18_SequentialGap ==
    \A k \in 1..Len(rl_log) :
        rl_log[k].kind = "wait" =>
            /\ \A j \in 1..(k - 1) :
                 ConsecutiveWaits(j, k) =>
                    /\ rl_log[k].delay_ms # NoneInt =>
                         rl_log[k].returned - rl_log[j].returned
                            >= rl_log[k].delay_ms
                    /\ rl_log[k].delay_ms = NoneInt =>
                         rl_log[k].returned - rl_log[j].returned
                            >= default_delay_ms
            /\ ( \/ \A j \in 1..(k - 1) : rl_log[j].domain # rl_log[k].domain
                 \/ \E j \in 1..(k - 1) :
                      /\ rl_log[j].kind = "reset"
                      /\ rl_log[j].domain = rl_log[k].domain
                      /\ \A i \in (j + 1)..(k - 1) :
                           rl_log[i].domain # rl_log[k].domain )
               => rl_log[k].returned = rl_log[k].called

\* a first call returned at once, the next call for the domain came half a
\* second later with a delay of 1.5 seconds and slept until the gap was 1.5
\* seconds, and then the domain was reset
C18_Witness ==
    /\ Len(rl_log) = 3
    /\ rl_log[1].kind = "wait" /\ rl_log[1].returned = rl_log[1].called
    /\ rl_log[2].kind = "wait" /\ rl_log[2].domain = rl_log[1].domain
    /\ rl_log[2].delay_ms = 1500
    /\ rl_log[2].called = rl_log[1].returned + 500
    /\ rl_log[2].returned = rl_log[1].returned + 1500
    /\ rl_log[3].kind = "reset" /\ rl_log[3].domain = rl_log[1].domain

\* delta(frequency) in days: 1, 7, 14 or 30, one week when the frequency is
\* none of the four names
DeltaDays(f) ==
    CASE f = "daily" -> 1
      [] f = "weekly" -> 7
      [] f = "biweekly" -> 14
      [] f = "monthly" -> 30
      [] OTHER -> 7

\* the domains that were active with next_scrape_at <= now when the tick
\* selected
DueAtStart ==
    { d \in TdDomains : /\ tk_start.rows[d].exists
                        /\ tk_start.rows[d].is_active
                        /\ tk_start.rows[d].next_scrape_at <= tk_start.at }

\* the for loop of the tick is over
TickOver == tk_pc = "loop" /\ tk_due = {}

\* C19: at the end of a tick during which the table is otherwise at rest,
\* the rows the tick went through are exactly the rows that were active and
\* due when it selected, each once; for each of them that no step failed on
\* there is one new pending job, one enqueued process_scrape_job with the
\* row's domain, max_pages and data_types, last_auto_scraped_at is the time
\* of the marking and next_scrape_at that time plus delta(frequency), so the
\* row is not due before delta has elapsed; every other row is unchanged
C19_TickEffects ==
    TickOver =>
        /\ {tk_log[k].domain : k \in 1..Len(tk_log)} = DueAtStart
        /\ Len(tk_log) = Cardinality(DueAtStart)
        /\ \A k \in 1..Len(tk_log) :
             tk_log[k].outcome = "marked" =>
                LET d == tk_log[k].domain
                    id == tk_log[k].job_id
                    at == tk_log[k].at
                    before == tk_start.rows[d]
                IN  /\ { j \in (tk_start.jobs + 1)..Len(td_jobs) :
                           td_jobs[j].domain = d } = {id}
                    /\ td_jobs[id].status = PENDING
                    /\ Cardinality({q \in 1..Len(td_queue) :
                                      td_queue[q].job_id = id}) = 1
                    /\ \A q \in 1..Len(td_queue) :
                         td_queue[q].job_id = id =>
                            /\ td_queue[q].function = "process_scrape_job"
                            /\ td_queue[q].domain = d
                            /\ td_queue[q].max_pages = before.max_pages
                            /\ td_queue[q].data_types = before.data_types
                    /\ td_rows[d] =
                         [before EXCEPT
                            !.last_auto_scraped_at = at,
                            !.next_scrape_at =
                                at + DeltaDays(before.scrape_frequency)]
                    /\ td_now < at + DeltaDays(before.scrape_frequency)
                         => td_rows[d] \notin get_due_domains
        /\ \A d \in TdDomains \ DueAtStart : td_rows[d] = tk_start.rows[d]

\* a tick marked the due daily row of a.com and enqueued its job, while the
\* row of b.com was inactive with a next_scrape_at in the past
C19_Witness ==
    /\ TickOver
    /\ \E k \in 1..Len(tk_log) :
         /\ tk_log[k].outcome = "marked"
         /\ tk_log[k].domain = "a.com"
         /\ tk_start.rows["a.com"].scrape_frequency = "daily"
         /\ td_rows["a.com"].next_scrape_at = tk_log[k].at + 1
    /\ tk_start.rows["b.com"].exists
    /\ ~tk_start.rows["b.com"].is_active
    /\ tk_start.rows["b.com"].next_scrape_at <= tk_start.at
    /\ Len(td_queue) = 1

\* C20: every active tracked domain whose last_auto_scraped_at is set has
\* next_scrape_at >= last_auto_scraped_at + delta(its scrape_frequency)
C20_NextAfterLast ==
    \A d \in TdDomains :
        ( /\ td_rows[d].exists
          /\ td_rows[d].is_active
          /\ td_rows[d].last_auto_scraped_at # NoneInt )
        => td_rows[d].next_scrape_at
             >= td_rows[d].last_auto_scraped_at
                + DeltaDays(td_rows[d].scrape_frequency)


\* the tracked searches that were active with next_run_at <= now when the
\* search tick selected
SearchDueAtStart ==
    { s \in TsSearches : /\ ts_start.rows[s].is_active
                         /\ ts_start.rows[s].next_run_at <= ts_start.at }

\* a tick of check_scheduled_scrapes has gone through its due rows
TickDone == tk_runs > 0 /\ (TickOver \/ tk_pc = "idle")

\* a tick of check_tracked_searches has gone through its due rows
SearchTickDone ==
    ts_runs > 0 /\ ((ts_pc = "loop" /\ ts_due = {}) \/ ts_pc = "idle")

FailureOutcomes == {"create_failed", "enqueue_failed", "mark_failed"}

\* C21: when a scheduler tick has gone through its due items, whatever step
\* failed on some of them, every item that was due when the tick selected has
\* been gone through once: an item no step failed on has its job created and
\* enqueued and its schedule advanced, and an item a step failed on has its
\* schedule as it was, so that it is still active and due, now and at every
\* later time until the next tick selects it. This holds of tracked domains
\* (check_scheduled_scrapes) and of tracked searches (check_tracked_searches).
C21_FailureIsolated ==
    /\ TickDone =>
         /\ {tk_log[k].domain : k \in 1..Len(tk_log)} = DueAtStart
         /\ Len(tk_log) = Cardinality(DueAtStart)
         /\ \A k \in 1..Len(tk_log) :
              LET d == tk_log[k].domain
              IN  IF tk_log[k].outcome \in FailureOutcomes
                  THEN /\ td_rows[d] = tk_start.rows[d]
                       /\ td_rows[d] \in get_due_domains
                  ELSE /\ tk_log[k].outcome = "marked"
                       /\ td_jobs[tk_log[k].job_id].domain = d
                       /\ \E q \in 1..Len(td_queue) :
                            td_queue[q].job_id = tk_log[k].job_id
                       /\ td_rows[d].last_auto_scraped_at = tk_log[k].at
                       /\ td_rows[d].next_scrape_at > tk_log[k].at
    /\ SearchTickDone =>
         /\ {ts_log[k].domain : k \in 1..Len(ts_log)} = SearchDueAtStart
         /\ Len(ts_log) = Cardinality(SearchDueAtStart)
         /\ \A k \in 1..Len(ts_log) :
              LET s == ts_log[k].domain
              IN  IF ts_log[k].outcome \in FailureOutcomes
                  THEN /\ ts_rows[s] = ts_start.rows[s]
                       /\ ts_rows[s] \in get_due_tracked_searches
                  ELSE /\ ts_log[k].outcome = "marked"
                       /\ ts_jobs[ts_log[k].job_id].query = ts_rows[s].query
                       /\ \E q \in 1..Len(ts_queue) :
                            ts_queue[q].discovery_id = ts_log[k].job_id
                       /\ ts_rows[s].last_run_at = ts_log[k].at
                       /\ ts_rows[s].next_run_at > ts_log[k].at

\* a tick found two tracked domains due; marking failed for the first one
\* after its job was created and enqueued, the tick went on to the second
\* one and marked it, and the first one is still due
C21_Witness ==
    /\ TickDone
    /\ Len(tk_log) = 2
    /\ tk_log[1].outcome = "mark_failed"
    /\ tk_log[2].outcome = "marked"
    /\ td_rows[tk_log[1].domain] \in get_due_domains
    /\ td_rows[tk_log[2].domain] \notin get_due_domains
    /\ Len(td_queue) = 2


\* the positions of ex_results holding a result of domain d
ResultsOf(d) == { i \in 1..Len(ex_results) : ex_results[i].domain = d }

\* C22: the dict extract_unique_domains returns has exactly one entry per
\* distinct domain of the results that is not in the skip set, and the entry
\* of a domain is the earliest of the domain's results whose score (a missing
\* score counting as 0) is the highest of the domain's results
C22_BestPerDomain ==
    ex_done =>
        LET skip == IF ex_skip.none THEN {} ELSE ex_skip.domains
        IN  /\ {ex_map[k].key : k \in 1..Len(ex_map)}
                 = {ex_results[i].domain : i \in 1..Len(ex_results)} \ skip
            /\ \A j, k \in 1..Len(ex_map) :
                 ex_map[j].key = ex_map[k].key => j = k
            /\ \A k \in 1..Len(ex_map) :
                 \E i \in ResultsOf(ex_map[k].key) :
                    /\ ex_map[k].value = ex_results[i]
                    /\ \A j \in ResultsOf(ex_map[k].key) :
                         /\ ScoreOr0(ex_results[j].score)
                              <= ScoreOr0(ex_results[i].score)
                         /\ ScoreOr0(ex_results[j].score)
                              = ScoreOr0(ex_results[i].score) => i <= j

\* a call whose results hold a.com three times, the first without a score,
\* the second and third with score 2, returned the second one
C22_Witness ==
    /\ ex_done
    /\ Len(ex_results) = 3
    /\ \A i \in 1..3 : ex_results[i].domain = "a.com"
    /\ ex_results[1].score = NoneInt
    /\ ex_results[2].score = 2
    /\ ex_results[3].score = 2
    /\ Len(ex_map) = 1
    /\ ex_map[1].value.url = 2


\* the run of process_discovery_job returned its summary
DiscoveryDone == dj_pc = "done" /\ dj_ret = "ok"

\* the distinct domains of the search results
ResultDomains == {dj_results[i].domain : i \in 1..Len(dj_results)}

\* the discovery_job_domains rows of a domain
RowsOf(d) == { k \in 1..Len(dj_rows) : dj_rows[k].domain = d }

FirstAppearance(d) ==
    CHOOSE i \in 1..Len(dj_results) :
        /\ dj_results[i].domain = d
        /\ \A j \in 1..(i - 1) : dj_results[j].domain # d

\* the domains of the results that were not recently scraped and are among
\* the first discovery_max_domains_per_query of them to appear
Survivors ==
    { d \in ResultDomains \ dj_skip :
        Cardinality({ e \in ResultDomains \ dj_skip :
                        FirstAppearance(e) < FirstAppearance(d) })
          < dj_settings.discovery_max_domains_per_query }

C24_FinalStatus ==
    (dj_pc = "done" /\ dj_job.exists) =>
        IF dj_ret = "raised"
        THEN /\ dj_job.status = "failed"
             /\ dj_job.error_message # NoneStr
        ELSE IF Len(dj_jobs) = 0
             THEN /\ dj_job.status = "completed"
                  /\ dj_job.completed_at # NoneInt
             ELSE /\ dj_job.status = "scraping"
                  /\ dj_job.completed_at = NoneInt


\* C25: every job the worker has taken from the queue, process_scrape_job or
\* process_discovery_job, was executed, and at every quarter of an hour that
\* has come since the worker started check_tracked_searches has run, and
\* check_scheduled_scrapes at every full hour
C25_QueueContract ==
    /\ \A k \in 1..Len(wk_done) : wk_done[k].outcome = "executed"
    /\ \A t \in 1..wk_time :
         /\ [name |-> "check_tracked_searches", at |-> t] \in wk_cron
         /\ MinuteOf(t) = 0
              => [name |-> "check_scheduled_scrapes", at |-> t] \in wk_cron


C27_NoUnworthyRecord ==
    \A u \in Range(pl_valid_urls) \cup Range(pl_resources) :
        is_valid_scrape_url(u)


\* the rules in the order the claim gives them
RuleOrder == <<"pricing", "contact", "resource", "blog_url", "contact">>

\* C28: classify_url gives every URL one data_type: that of the first rule,
\* in the order pricing, contact/career, resource, blog, team/about (as
\* contact), with a pattern matching the URL's path, and confidence 0.8; or
\* blog_url with confidence 0.2 when no pattern matches
C28_FirstRuleWins ==
    cl_pc = "done" =>
        \A matching \in { { i \in 1..Len(RuleOrder) : RuleMatches(i, path) } :
                           path \in {urlparse(cl_url).path} } :
            /\ cl_result.url = cl_url
            /\ IF matching = {}
               THEN cl_result.data_type = "blog_url" /\ cl_result.confidence = 2
               ELSE /\ \E i \in matching :
                         /\ \A j \in matching : i <= j
                         /\ cl_result.data_type = RuleOrder[i]
                    /\ cl_result.confidence = 8

\* a path that a team/about pattern and a pricing pattern both match is
\* classified as pricing
C28_Witness ==
    /\ cl_pc = "done"
    /\ cl_url = <<"https", ":", "/", "/", "a.com", "/", "about", "/", "pricing">>
    /\ cl_result.data_type = "pricing"
    /\ cl_result.confidence = 8


\* C29: the list extract_people returned holds no two records whose emails
\* are equal after case-folding
C29_NoTwoWithOneEmail ==
    (cp_pc = "done" /\ ~cp_ret.raised) =>
        \A i, j \in 1..Len(cp_ret.people) :
            ( /\ i # j
              /\ Truthy(cp_ret.people[i].email)
              /\ Truthy(cp_ret.people[j].email) )
            => LowerText(cp_ret.people[i].email)
                   # LowerText(cp_ret.people[j].email)


\* C30: normalize_url is idempotent: normalizing a normalized URL gives it
\* back
C30_Idempotent ==
    nu_pc = "twice" => nu_twice = nu_once


\* C31: a URL whose fetch result is blocked or captcha-flagged gives no
\* record, and when execute has returned every URL has been taken, whatever
\* happened to the URLs before it
C31_BlockedSkipped ==
    /\ \A k \in 1..Len(wl_fetched) :
         (wl_fetched[k].blocked \/ wl_fetched[k].captcha_detected)
             => wl_urls[k] \notin Range(wl_records)
    /\ wl_pc = "done" => wl_i = Len(wl_urls)


C33_ScrapeBounded ==
    /\ pg_mode = "scrape_escalating" =>
         /\ Len(pg_fetches) <= 3
         /\ pg_fetches # <<>> =>
              pg_fetches[1].tier_used =
                  IF pg_arg # NoneStr THEN pg_arg
                  ELSE decide_initial_tier(pg_meta)
         /\ \A k \in 1..(Len(pg_fetches) - 1) :
              /\ should_escalate(pg_fetches[k])
              /\ TierIndex(pg_fetches[k].tier_used)
                   < TierIndex(pg_fetches[k + 1].tier_used)
         /\ pg_pc = "done" =>
              \/ ~should_escalate(pg_fetches[Len(pg_fetches)])
              \/ pg_fetches[Len(pg_fetches)].tier_used = HEADLESS_PROXY
    /\ pg_mode = "scrape_plain" =>
         /\ Len(pg_fetches) <= 1
         /\ pg_pc = "done" => Len(pg_fetches) = 1

\* a scrape with an escalation service that was given no tier, fetched
\* three times and returned
C33_Witness ==
    /\ pg_mode = "scrape_escalating"
    /\ pg_arg = NoneStr
    /\ pg_pc = "done"
    /\ Len(pg_fetches) = 3
    /\ should_escalate(pg_fetches[3])


\* the calls of fn and the sleeps of the run, in order
RetryCalls == SelectSeq(rt_trace, LAMBDA e : e.kind = "call")

RetrySleepsMade == SelectSeq(rt_trace, LAMBDA e : e.kind = "sleep")

\* C34: fn is called at most max_retries + 1 times; a call that returns is
\* the last and its result is returned; the k-th sleep comes after the
\* k-th call failed with an error of retry_on, k at most max_retries, and
\* lasts min(base_delay * 2^(k-1), max_delay); the error raised is that of
\* the call just before, with no sleep between; a call that fails with an
\* error outside retry_on is followed at once by that error raised
C34_RetryContract ==
    /\ Len(RetryCalls) <= rt_max_retries + 1
    /\ Len(RetrySleepsMade) <= rt_max_retries
    /\ \A i \in 1..Len(rt_trace) :
         /\ (rt_trace[i].kind = "call" /\ rt_trace[i].error = NoneStr) =>
              /\ Len(rt_trace) = i + 1
              /\ rt_trace[i + 1].kind = "return"
         /\ (rt_trace[i].kind = "call" /\ rt_trace[i].error # NoneStr
                /\ rt_trace[i].error \notin rt_retry_on
                /\ "Exception" \notin rt_retry_on) =>
              /\ Len(rt_trace) = i + 1
              /\ rt_trace[i + 1].kind = "raise"
              /\ rt_trace[i + 1].error = rt_trace[i].error
         /\ rt_trace[i].kind = "sleep" =>
              /\ i % 2 = 0
              /\ rt_trace[i - 1].kind = "call"
              /\ rt_trace[i - 1].error # NoneStr
              /\ \E m \in {rt_base_delay * 2 ^ ((i \div 2) - 1)} :
                   rt_trace[i].delay = IF m < rt_max_delay THEN m
                                       ELSE rt_max_delay
         /\ rt_trace[i].kind = "raise" =>
              /\ rt_trace[i - 1].kind = "call"
              /\ rt_trace[i - 1].error = rt_trace[i].error
         /\ rt_trace[i].kind \in {"raise", "return"} => i = Len(rt_trace)

\* a run that failed at every attempt, slept for the capped delay before
\* the last one, and raised
C34_Witness ==
    /\ rt_pc = "done"
    /\ rt_max_retries = MaxRetries
    /\ Len(RetryCalls) = MaxRetries + 1
    /\ rt_trace[Len(rt_trace)].kind = "raise"
    /\ RetrySleepsMade[MaxRetries].delay = rt_max_delay
    /\ RetrySleepsMade[1].delay < rt_max_delay


RECURSIVE SumCost(_)
\* the cost_usd of the FetchResults of a list of fetches, a fetch that
\* raised having none
SumCost(fetched) ==
    IF fetched = <<>> THEN 0
    ELSE (IF Head(fetched).raised THEN 0 ELSE Head(fetched).cost_usd)
         + SumCost(Tail(fetched))

\* C35: the cost_usd written on the job when it completes is the sum of the
\* cost_usd of the FetchResults its worker obtained
C35_CostIsSum == wl_pc = "completed" => wl_job_cost = SumCost(wl_fetched)


C37_PendingEnqueued ==
    /\ Quiet =>
         \A j \in 1..Len(td_jobs) :
            td_jobs[j].status = PENDING =>
               \E k \in 1..Len(td_queue) :
                  /\ td_queue[k].function = "process_scrape_job"
                  /\ td_queue[k].job_id = j
    /\ \A i \in 1..Len(tk_log) :
         tk_log[i].outcome = "marked" =>
            \E k \in 1..Len(td_queue) : td_queue[k].job_id = tk_log[i].job_id


\* C38: whichever coroutines made them, two calls of wait(d, m) for one
\* domain return at least m apart (the default delay when m is None), and a
\* call for a domain no other call was made for returns at the time it was
\* called
C38_ParallelGap ==
    \A k \in 1..Len(rl_log) :
        /\ \A j \in 1..(k - 1) :
             (rl_log[j].domain = rl_log[k].domain
                /\ rl_log[j].delay_ms = rl_log[k].delay_ms) =>
                   rl_log[k].returned - rl_log[j].returned
                      >= delay_of(rl_log[k].delay_ms)
        /\ (\A j \in 1..Len(rl_log) :
                j # k => rl_log[j].domain # rl_log[k].domain)
              => rl_log[k].returned = rl_log[k].called


\* C39: however the executions of check_scheduled_scrapes of one hour
\* overlap, a tracked domain is given at most one scrape job
C39_OneJobPerDue ==
    \A d \in TdDomains :
        Cardinality({ j \in 1..Len(ov_jobs) : ov_jobs[j].domain = d }) <= 1

====
